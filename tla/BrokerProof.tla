---------------------------- MODULE BrokerProof ----------------------------
(***************************************************************************)
(* Broker, for any number of clients, destinations and ids:                *)
(*  - every variable has its type;                                         *)
(*  - the tables of the sessions and the HashMaps of the destinations      *)
(*    match;                                                               *)
(*  - a subscriber's SEND reaches the queue of the destination;            *)
(*  - a destination loses a subscription only for one of three causes;     *)
(*  - a session that has sent ERROR has a Close in its channel for as long *)
(*    as it goes on, whatever destinations, timers and other sessions do;  *)
(*  - if clients are careful, no destination has a subscription that its   *)
(*    session does not know.                                               *)
(***************************************************************************)
EXTENDS BrokerInvariants, ComponentTheorems

-----------------------------------------------------------------------------
(* Types.                                                                  *)

\* So does the spawning, and the end, of a lookup, and a call on a handle.
LEMMA LookupTypes ==
    ASSUME TypeOK,
           \/ \E d \in Destinations : MapCreates(d)
           \/ \E l \in lookups : SubscribeFound(l)
    PROVE  ProxyTypeOK' /\ DestTypeOK' /\ MapTypeOK'
<1> USE DEF TypeOK
<1>1. ASSUME NEW d \in Destinations, MapCreates(d)
      PROVE  ProxyTypeOK' /\ DestTypeOK' /\ MapTypeOK'
  BY <1>1, EmptyChannels
     DEF MapCreates, Create, proxyVars, ProxyTypeOK, DestTypeOK, MapTypeOK, BackendState, Ids
<1>2. ASSUME NEW l \in lookups, SubscribeFound(l)
      PROVE  ProxyTypeOK' /\ DestTypeOK' /\ MapTypeOK'
  <2>1. l.client \in Clients /\ l.dest \in Destinations /\ l.sub \in SubIds
    BY DEF MapTypeOK, Lookup
  <2>2. actions' \in [Destinations -> ChannelOf(DestinationAction)]
    <3>1. SubscribeAction(l.client, l.sub) \in DestinationAction
      BY <2>1 DEF SubscribeAction, DestinationAction
    <3> QED
      BY <1>2, <2>1, <3>1, PerformActionEffect DEF SubscribeFound, Subscribe
  <2>3. inbox' \in [Clients -> ChannelOf(ClientEvent)]
    <3>1. Subscribed(l.dest, l.sub, Failed) \in ClientEvent
      BY <2>1 DEF Subscribed, ClientEvent, Failed
    <3>2. CASE actions[l.dest].open
      BY <1>2, <3>2 DEF SubscribeFound, Subscribe, ProxyTypeOK
    <3>3. CASE ~actions[l.dest].open
      BY <1>2, <2>1, <3>1, <3>3, SendEventEffect DEF SubscribeFound, Subscribe
    <3> QED
      BY <3>2, <3>3
  <2> QED
    BY <1>2, <2>2, <2>3 DEF SubscribeFound, ProxyTypeOK, DestTypeOK, MapTypeOK, Ids
<1> QED
  BY <1>1, <1>2

\* So does the handling of the frames a destination has a part in.
LEMMA ClientFrameTypes ==
    ASSUME TypeOK, NEW c \in Clients, ClientFrame(c)
    PROVE  TypeOK'
<1> USE DEF TypeOK
<1>1. ASSUME NEW d \in Destinations, NEW s \in SubIds, ClientSubscribes(c, d, s)
      PROVE  TypeOK'
  <2>1. lookups' \in SUBSET Lookup
    BY <1>1 DEF ClientSubscribes, SpawnLookup, MapTypeOK, Lookup, SessionTypeOK
  <2> QED
    BY <1>1, <2>1, ReadsTypes
       DEF ClientSubscribes, SubscribeFrame, destVars, proxyVars,
           ProxyTypeOK, DestTypeOK, MapTypeOK, SessionTypeOK, Ids
<1>2. ASSUME NEW d \in Destinations, NEW m \in Messages, ClientSends(c, d, m)
      PROVE  TypeOK'
  <2>1. actions' \in [Destinations -> ChannelOf(DestinationAction)]
    <3>1. SendAction(m) \in DestinationAction
      BY DEF SendAction, DestinationAction
    <3> QED
      BY <1>2, <3>1, PerformActionEffect DEF ClientSends, SendIfPresent, Send, DestTypeOK
  <2> QED
    BY <1>2, <2>1, ReadsTypes
       DEF ClientSends, SendFrame, proxyVars,
           ProxyTypeOK, DestTypeOK, MapTypeOK, SessionTypeOK, Ids
<1>3. ASSUME NEW e \in active[c], ClientUnsubscribes(c, e)
      PROVE  TypeOK'
  <2>1. actions' \in [Destinations -> ChannelOf(DestinationAction)]
    <3>1. e.dest \in Destinations /\ UnsubscribeAction(c, e.id) \in DestinationAction
      BY DEF SessionTypeOK, Entry, UnsubscribeAction, DestinationAction
    <3> QED
      BY <1>3, <3>1, PerformActionEffect
         DEF ClientUnsubscribes, UnsubscribeIfPresent, Unsubscribe, DestTypeOK
  <2> QED
    BY <1>3, <2>1, ReadsTypes
       DEF ClientUnsubscribes, UnsubscribeFrame, proxyVars,
           ProxyTypeOK, DestTypeOK, MapTypeOK, SessionTypeOK, Ids
<1>4. ASSUME NEW e \in active[c], ClientUnsubscribePanics(c, e)
      PROVE  TypeOK'
  BY <1>4, ReadsTypes, EndTypes
     DEF ClientUnsubscribePanics, UnsubscribePanic, destVars, Phase,
         ProxyTypeOK, DestTypeOK, MapTypeOK, SessionTypeOK, Ids
<1> QED
  BY <1>1, <1>2, <1>3, <1>4 DEF ClientFrame

\* Every step preserves types, given that a destination that is sending has
\* its message in hand ...
LEMMA TypeStep ==
    ASSUME TypeOK, SendInHand, [Next]_vars
    PROVE  TypeOK'
<1> USE DEF TypeOK
<1>1. ASSUME NEW c \in Clients, SessionStep(c), UNCHANGED <<destVars, lookups>>
      PROVE  TypeOK'
  BY <1>1, SessionStepTypes DEF destVars, DestTypeOK, MapTypeOK, Ids
<1>2. ASSUME NEW c \in Clients, ClientFrame(c)
      PROVE  TypeOK'
  BY <1>2, ClientFrameTypes
<1>3. CASE DestinationStep /\ UNCHANGED sessionVars
  <2>1. SessionTypeOK'
    BY <1>3 DEF sessionVars, SessionTypeOK
  <2>2. ASSUME NEW d \in Destinations, Backend(d), UNCHANGED lookups
        PROVE  TypeOK'
    BY <2>1, <2>2, BackendTypes DEF MapTypeOK
  <2> QED
    BY <1>3, <2>1, <2>2, LookupTypes DEF DestinationStep
<1>4. ASSUME NEW d \in Destinations, CloseDestination(d)
      PROVE  TypeOK'
  BY <1>4, CloseActionType, PerformActionEffect
     DEF CloseDestination, CloseHandle, proxyVars, sessionVars,
         ProxyTypeOK, DestTypeOK, MapTypeOK, SessionTypeOK, Ids
<1>5. CASE UNCHANGED vars
  BY <1>5 DEF vars, destVars, proxyVars, sessionVars,
              ProxyTypeOK, DestTypeOK, MapTypeOK, SessionTypeOK, Ids
<1> QED
  BY <1>1, <1>2, <1>3, <1>4, <1>5 DEF Next

\* ... which it has: calls on the handle queue up behind it, and only EndSend
\* takes it.
LEMMA SendInHandStep ==
    ASSUME TypeOK, SendInHand, [Next]_vars
    PROVE  SendInHand'
<1> USE DEF TypeOK
<1>1. ASSUME NEW d \in Destinations, NEW a \in DestinationAction,
             PerformAction(d, a), UNCHANGED backend
      PROVE  SendInHand'
  BY <1>1, CallLeavesSend
<1>2. ASSUME UNCHANGED <<backend, actions>>
      PROVE  SendInHand'
  BY <1>2 DEF SendInHand
<1>3. ASSUME NEW c \in Clients, ClientFrame(c)
      PROVE  SendInHand'
  <2>1. ASSUME NEW d \in Destinations, NEW m \in Messages, ClientSends(c, d, m)
        PROVE  SendInHand'
    <3>1. SendAction(m) \in DestinationAction
      BY DEF SendAction, DestinationAction
    <3> QED
      BY <1>1, <1>2, <2>1, <3>1 DEF ClientSends, SendIfPresent, Send
  <2>2. ASSUME NEW e \in active[c], ClientUnsubscribes(c, e)
        PROVE  SendInHand'
    <3>1. e.dest \in Destinations /\ UnsubscribeAction(c, e.id) \in DestinationAction
      BY DEF SessionTypeOK, Entry, UnsubscribeAction, DestinationAction
    <3> QED
      BY <1>1, <1>2, <2>2, <3>1 DEF ClientUnsubscribes, UnsubscribeIfPresent, Unsubscribe
  <2> QED
    BY <1>2, <1>3, <2>1, <2>2
       DEF ClientFrame, ClientSubscribes, ClientUnsubscribePanics, destVars
<1>4. ASSUME NEW l \in lookups, SubscribeFound(l)
      PROVE  SendInHand'
  <2>1. l.dest \in Destinations /\ SubscribeAction(l.client, l.sub) \in DestinationAction
    BY DEF MapTypeOK, Lookup, SubscribeAction, DestinationAction
  <2> QED
    BY <1>1, <1>4, <2>1 DEF SubscribeFound, Subscribe
<1>5. ASSUME NEW d \in Destinations, Backend(d)
      PROVE  SendInHand'
  BY <1>5, TaskLeavesSend
<1>6. ASSUME NEW d \in Destinations, MapCreates(d)
      PROVE  SendInHand'
  BY <1>6 DEF MapCreates, Create, SendInHand, DestTypeOK
<1>7. ASSUME NEW d \in Destinations, CloseDestination(d)
      PROVE  SendInHand'
  BY <1>1, <1>7, CloseActionType DEF CloseDestination, CloseHandle
<1> QED
  BY <1>2, <1>3, <1>4, <1>5, <1>6, <1>7 DEF Next, DestinationStep, vars, destVars

\* Before anybody has connected, every variable has its type.
LEMMA InitTypes == Init => TypeOK /\ SendInHand
<1> SUFFICES ASSUME Init PROVE TypeOK /\ SendInHand
  OBVIOUS
<1>1. ProxyTypeOK
  BY EmptyChannels DEF Init, ProxyInit, ProxyTypeOK
<1>2. DestTypeOK
  BY EmptyChannels DEF Init, DestInit, DestTypeOK, BackendState
<1>3. MapTypeOK /\ SessionTypeOK
  BY DEF Init, MapInit, SessionInit, MapTypeOK, SessionTypeOK, Phase
<1>4. SendInHand
  BY DEF Init, DestInit, SendInHand
<1> QED
  BY <1>1, <1>2, <1>3, <1>4 DEF TypeOK

\* The variables of every task keep their types, whatever the tasks, clients
\* and connections do, and in whatever order (all modules of Broker).
THEOREM Typing == Spec => [](TypeOK /\ SendInHand)
<1>1. TypeOK /\ SendInHand /\ [Next]_vars => (TypeOK /\ SendInHand)'
  BY TypeStep, SendInHandStep
<1> QED
  BY InitTypes, <1>1, PTL DEF Spec

-----------------------------------------------------------------------------
(* Tables and HashMaps.  Most steps are plain: they move no subscription,  *)
(* no table entry and no event or action that names an id.  What is left   *)
(* is a session's end, and the steps in the life of an id.                 *)

Core == Consistent /\ Gone /\ Announced /\ TableMatchesBackend

-----------------------------------------------------------------------------
(* Plain steps.                                                            *)

PlainEvent == {e \in ClientEvent : /\ e.type # "Unsubscribed"
                                   /\ e.type = "Subscribed" => e.result = Failed}
PlainAction == {a \in DestinationAction : a.type # "Unsubscribe"}

InboxesPlain == \A c \in Clients :
    /\ inbox'[c].open = inbox[c].open
    /\ Pending(inbox[c]) \subseteq Pending(inbox'[c]) \cup PlainEvent
    /\ Pending(inbox'[c]) \subseteq Pending(inbox[c]) \cup PlainEvent
    /\ ~Alive(c) => inbox'[c] = inbox[c]
    /\ \A i \in Ids : AtMostOne(inbox'[c], Announcements(i))

ActionsPlain == \A d \in Destinations :
    Pending(actions'[d]) \subseteq Pending(actions[d]) \cup PlainAction

PhasesPlain == \A c \in Clients :
    /\ phase'[c] \in {"connecting", "alive"} <=> phase[c] \in {"connecting", "alive"}
    /\ phase[c] = "alive" => phase'[c] = "alive"

BackendsPlain == \A d \in Destinations : Stopped(d) => Stopped(d)'

Plain == /\ UNCHANGED <<issued, subscriptions, active>>
         /\ InboxesPlain /\ ActionsPlain /\ PhasesPlain /\ BackendsPlain

\* A plain event announces nothing.
LEMMA PlainAnnouncesNothing ==
    ASSUME NEW e \in PlainEvent, NEW i \in Ids
    PROVE  e \notin Announcements(i)
BY DEF PlainEvent, Announcements, Ids, Failed

\* An inbox that only gets a plain event stays plain, whoever sends it.
LEMMA SendPlainEvent ==
    ASSUME TypeOK, AnnouncedOnce, NEW c \in Clients, NEW e \in PlainEvent, SendEvent(c, e)
    PROVE  InboxesPlain
<1>1. e \in ClientEvent
  BY DEF PlainEvent
<1>2. /\ inbox'[c] = Push(inbox[c], e)
      /\ \A x \in Clients : /\ x # c => inbox'[x] = inbox[x]
                            /\ inbox'[x].open = inbox[x].open
                            /\ Pending(inbox[x]) \subseteq Pending(inbox'[x])
                            /\ Pending(inbox'[x]) \subseteq Pending(inbox[x]) \cup {e}
                            /\ ~Alive(x) => inbox'[x] = inbox[x]
  BY <1>1, SendEventEffect DEF TypeOK
<1>3. ASSUME NEW i \in Ids
      PROVE  AtMostOne(Push(inbox[c], e), Announcements(i))
  <2>1. inbox[c] \in ChannelOf(ClientEvent)
    BY DEF TypeOK, ProxyTypeOK
  <2>2. AtMostOne(inbox[c], Announcements(i)) /\ e \notin Announcements(i)
    BY PlainAnnouncesNothing DEF AnnouncedOnce
  <2> QED
    BY <1>1, <2>1, <2>2, PushAtMostOne
<1> QED
  BY <1>2, <1>3 DEF InboxesPlain, AnnouncedOnce

\* So does one from which a plain event is taken.
LEMMA TakePlainEvent ==
    ASSUME TypeOK, AnnouncedOnce, NEW c \in Clients, Ready(inbox[c]),
           NextEvent(c) \in PlainEvent, Alive(c), TakeEvent(c)
    PROVE  InboxesPlain
<1>1. /\ inbox'[c] = Pop(inbox[c])
      /\ Pending(inbox[c]) \subseteq Pending(inbox'[c]) \cup {NextEvent(c)}
      /\ \A x \in Clients : /\ x # c => inbox'[x] = inbox[x]
                            /\ inbox'[x].open = inbox[x].open
                            /\ Pending(inbox'[x]) \subseteq Pending(inbox[x])
  BY TakeEventEffect DEF TypeOK
<1>2. ASSUME NEW i \in Ids
      PROVE  AtMostOne(Pop(inbox[c]), Announcements(i))
  <2>1. inbox[c] \in ChannelOf(ClientEvent)
    BY DEF TypeOK, ProxyTypeOK
  <2> QED
    BY <2>1, PopAtMostOne DEF AnnouncedOnce
<1> QED
  BY <1>1, <1>2 DEF InboxesPlain, AnnouncedOnce

\* And inboxes nobody touches.
LEMMA InboxesUntouched ==
    ASSUME AnnouncedOnce, UNCHANGED inbox
    PROVE  InboxesPlain
BY DEF InboxesPlain, AnnouncedOnce

\* The queue of a destination that is given a plain action stays plain.
LEMMA PerformPlainAction ==
    ASSUME TypeOK, NEW d \in Destinations, NEW a \in PlainAction, PerformAction(d, a)
    PROVE  ActionsPlain
<1>1. a \in DestinationAction
  BY DEF PlainAction
<1> QED
  BY <1>1, PerformActionEffect DEF TypeOK, ActionsPlain

\* A plain step preserves what the invariant says of ids, tables and channels.
LEMMA PlainStep ==
    ASSUME TypeOK, Core, Plain
    PROVE  Core'
<1> USE DEF Core, Consistent, Gone, Announced, Plain
<1>1. EventsConsistent'
  <2> SUFFICES ASSUME NEW c \in Clients, NEW e \in Pending(inbox'[c])
               PROVE  EventConsistent(c, e)
    BY DEF EventsConsistent, EventConsistent, Ids
  <2>1. e \in Pending(inbox[c]) \/ e \in PlainEvent
    BY DEF InboxesPlain
  <2> QED
    BY <2>1 DEF EventsConsistent, EventConsistent, PlainEvent
<1>2. TablesConsistent'
  BY DEF TablesConsistent, Ids
<1>3. ActionsConsistent'
  BY DEF ActionsConsistent, ActionsPlain, PlainAction, Ids
<1>4. Gone'
  BY DEF ChannelClosedWithSession, EndedHaveNothing, ClosedAreEmpty, Alive,
         InboxesPlain, PhasesPlain
<1>5. AnnouncedOnce'
  BY DEF AnnouncedOnce, InboxesPlain, Announcements, Ids
<1>6. AnnouncedIsNew'
  <2> SUFFICES ASSUME NEW c \in Clients, NEW e \in Pending(inbox'[c]), NEW i \in Ids,
                      e \in Announcements(i)
               PROVE  /\ \A x \in active[c] : x.id # i
                      /\ \A a \in Pending(actions'[e.dest]) : a.type = "Unsubscribe" => a.id # i
                      /\ i \in subscriptions[e.dest] \/ Stopped(e.dest)'
    BY DEF AnnouncedIsNew, Ids, Announcements
  <2>1. e \in Pending(inbox[c])
    BY PlainAnnouncesNothing DEF InboxesPlain
  <2>2. e.dest \in Destinations
    BY DEF Announcements
  <2> QED
    BY <2>1, <2>2 DEF AnnouncedIsNew, ActionsPlain, PlainAction, BackendsPlain
<1>7. TableMatchesBackend'
  <2> SUFFICES ASSUME NEW c \in Clients, NEW e \in active[c]
               PROVE  \/ Owns(c, e)
                      \/ Unsubscribed(e.sub, e.id) \in Pending(inbox'[c])
                      \/ Stopped(e.dest)'
    BY DEF TableMatchesBackend, Owns
  <2>1. Unsubscribed(e.sub, e.id) \notin PlainEvent
    BY DEF PlainEvent, Unsubscribed
  <2>2. e.dest \in Destinations
    BY DEF TypeOK, SessionTypeOK, Entry
  <2> QED
    BY <2>1, <2>2 DEF TableMatchesBackend, InboxesPlain, BackendsPlain
<1> QED
  BY <1>1, <1>2, <1>3, <1>4, <1>5, <1>6, <1>7

-----------------------------------------------------------------------------
(* The end of a session.                                                   *)

\* When a session ends, nobody holds anything of it but the destinations.
LEMMA EndStep ==
    ASSUME TypeOK, Core, NEW c \in Clients,
           NEW how \in {"lingering", "closed", "panicked"}, End(c, how),
           UNCHANGED <<destVars, lookups>>
    PROVE  Core'
<1> USE DEF Core, Consistent, Gone, Announced
<1>1. /\ Pending(inbox'[c]) = {} /\ ~inbox'[c].open
      /\ \A x \in Clients : /\ x # c => inbox'[x] = inbox[x]
                            /\ Pending(inbox'[x]) \subseteq Pending(inbox[x])
  BY DropInboxEffect DEF End, TypeOK
<1>2. /\ active'[c] = {} /\ phase'[c] = how
      /\ \A x \in Clients : x # c => active'[x] = active[x] /\ phase'[x] = phase[x]
  BY DEF End, TypeOK, SessionTypeOK
<1>3. UNCHANGED <<backend, actions, issued, subscriptions>>
  BY DEF destVars
<1>4. EventsConsistent'
  BY <1>1, <1>3 DEF EventsConsistent, EventConsistent, Ids
<1>5. TablesConsistent' /\ ActionsConsistent'
  BY <1>2, <1>3 DEF TablesConsistent, ActionsConsistent, Ids
<1>6. Gone'
  BY <1>1, <1>2 DEF ChannelClosedWithSession, EndedHaveNothing, ClosedAreEmpty, Alive
<1>7. AnnouncedOnce'
  <2>1. \A i \in Ids : AtMostOne(inbox'[c], Announcements(i))
    BY <1>1 DEF AtMostOne, Pending
  <2> QED
    BY <1>1, <1>3, <2>1 DEF AnnouncedOnce, Announcements, Ids
<1>8. AnnouncedIsNew'
  BY <1>1, <1>2, <1>3 DEF AnnouncedIsNew, Announcements, Stopped, Ids
<1>9. TableMatchesBackend'
  BY <1>1, <1>2, <1>3 DEF TableMatchesBackend, Owns, Stopped
<1> QED
  BY <1>4, <1>5, <1>6, <1>7, <1>8, <1>9

-----------------------------------------------------------------------------
(* The life of an id.                                                      *)

\* add_subscription: the id is new, so nothing mentions it yet.
LEMMA AddSubscriptionStep ==
    ASSUME TypeOK, Core, NEW d \in Destinations, AddSubscription(d), UNCHANGED sessionVars
    PROVE  Core'
<1> USE DEF Core, Consistent, Gone, Announced
<1> DEFINE a == First(actions[d])
           i == Len(issued) + 1
           e == Subscribed(d, a.sub, i)
<1>1. /\ Ready(actions[d]) /\ a.client \in Clients /\ a.sub \in SubIds
      /\ Len(issued) \in Nat /\ i \in Nat /\ e \in ClientEvent
  <2>1. Ready(actions[d]) /\ a.client \in Clients /\ a.sub \in SubIds
    BY HandlingTypes DEF AddSubscription, TypeOK
  <2>2. Len(issued) \in Nat /\ i \in Nat
    BY DEF TypeOK, DestTypeOK
  <2> QED
    BY <2>1, <2>2 DEF Subscribed, ClientEvent
<1>2. /\ inbox'[a.client] = Push(inbox[a.client], e)
      /\ \A x \in Clients : /\ x # a.client => inbox'[x] = inbox[x]
                            /\ inbox'[x].open = inbox[x].open
                            /\ Pending(inbox[x]) \subseteq Pending(inbox'[x])
                            /\ Pending(inbox'[x]) \subseteq Pending(inbox[x]) \cup {e}
                            /\ ~Alive(x) => inbox'[x] = inbox[x]
  BY <1>1, SendEventEffect DEF AddSubscription, TypeOK
<1>3. /\ i \notin Ids /\ Ids' = Ids \cup {i}
      /\ issued'[i] = [client |-> a.client, dest |-> d, sub |-> a.sub]
      /\ \A j \in Ids : issued'[j] = issued[j]
  BY <1>1 DEF AddSubscription, TypeOK, DestTypeOK, Subscription, Ids
<1>4. \A x \in Destinations : Pending(actions'[x]) \subseteq Pending(actions[x])
  BY <1>1, HandledEffect DEF AddSubscription, TypeOK
<1>5. /\ UNCHANGED <<backend, active, phase>>
      /\ \A x \in Destinations : subscriptions[x] \subseteq subscriptions'[x]
      /\ i \in subscriptions'[d]
  BY DEF AddSubscription, sessionVars, TypeOK, DestTypeOK
<1>6. EventsConsistent'
  <2> SUFFICES ASSUME NEW x \in Clients, NEW f \in Pending(inbox'[x])
               PROVE  EventConsistent(x, f)'
    BY DEF EventsConsistent
  <2>1. CASE f \in Pending(inbox[x])
    BY <1>3, <2>1 DEF EventsConsistent, EventConsistent
  <2>2. CASE f \notin Pending(inbox[x])
    <3>1. f = e /\ x = a.client
      BY <1>2, <2>2
    <3> QED
      BY <1>3, <3>1 DEF EventConsistent, Subscribed
  <2> QED
    BY <2>1, <2>2
<1>7. TablesConsistent' /\ ActionsConsistent'
  BY <1>3, <1>4, <1>5 DEF TablesConsistent, ActionsConsistent
<1>8. Gone'
  BY <1>2, <1>5 DEF ChannelClosedWithSession, EndedHaveNothing, ClosedAreEmpty, Alive
<1> HIDE DEF a, i, e
<1>9. ASSUME NEW x \in Clients, NEW f \in Pending(inbox[x])
       PROVE  f \notin Announcements(i)
  <2>1. EventConsistent(x, f)
    BY DEF EventsConsistent
  <2>2. i # Failed
    BY <1>1 DEF i, Failed
  <2> QED
    BY <1>3, <2>1, <2>2 DEF EventConsistent, Announcements
<1>10. AnnouncedOnce'
  <2> SUFFICES ASSUME NEW x \in Clients, NEW j \in Ids \cup {i}
               PROVE  AtMostOne(inbox'[x], Announcements(j))
    BY <1>3 DEF AnnouncedOnce, Announcements
  <2>1. inbox[x] \in ChannelOf(ClientEvent) /\ inbox[a.client] \in ChannelOf(ClientEvent)
    BY <1>1 DEF TypeOK, ProxyTypeOK
  <2>2. Pending(inbox[x]) \cap Announcements(i) = {}
    BY <1>9
  <2>3. AtMostOne(inbox[x], Announcements(j))
    BY <2>2 DEF AnnouncedOnce, AtMostOne, Pending
  <2>4. j # i => e \notin Announcements(j)
    BY DEF e, Subscribed, Announcements
  <2>5. CASE x = a.client
    BY <1>1, <1>2, <2>1, <2>2, <2>3, <2>4, <2>5, PushAtMostOne
  <2>6. CASE x # a.client
    BY <1>2, <2>3, <2>6
  <2> QED
    BY <2>5, <2>6
<1>11. AnnouncedIsNew'
  <2> SUFFICES ASSUME NEW x \in Clients, NEW f \in Pending(inbox'[x]), NEW j \in Ids \cup {i},
                      f \in Announcements(j)
               PROVE  /\ \A y \in active[x] : y.id # j
                      /\ \A b \in Pending(actions'[f.dest]) : b.type = "Unsubscribe" => b.id # j
                      /\ j \in subscriptions'[f.dest] \/ Stopped(f.dest)'
    BY <1>3, <1>5 DEF AnnouncedIsNew, Announcements
  <2>1. f.dest \in Destinations
    BY DEF Announcements
  <2>2. CASE j # i
    <3>1. f \in Pending(inbox[x]) /\ j \in Ids
      BY <1>2, <2>2 DEF Announcements, Subscribed, e
    <3> QED
      BY <1>4, <1>5, <2>1, <3>1 DEF AnnouncedIsNew, Stopped
  <2>3. CASE j = i
    <3>1. f = e
      BY <1>2, <1>9, <2>3
    <3>2. f.dest = d
      BY <3>1 DEF Subscribed, e
    <3>3. \A y \in active[x] : y.id # i
      BY <1>3 DEF TablesConsistent
    <3>4. \A b \in Pending(actions'[d]) : b.type = "Unsubscribe" => b.id # i
      BY <1>3, <1>4 DEF ActionsConsistent
    <3> QED
      BY <1>5, <2>3, <3>2, <3>3, <3>4
  <2> QED
    BY <2>2, <2>3
<1>12. TableMatchesBackend'
  <2> SUFFICES ASSUME NEW x \in Clients, NEW y \in active[x]
               PROVE  \/ Owns(x, y)'
                      \/ Unsubscribed(y.sub, y.id) \in Pending(inbox'[x])
                      \/ Stopped(y.dest)'
    BY <1>5 DEF TableMatchesBackend
  <2>1. y.dest \in Destinations
    BY DEF TypeOK, SessionTypeOK, Entry
  <2>2. y.id \in Ids
    BY DEF TablesConsistent
  <2> QED
    BY <1>2, <1>3, <1>5, <2>1, <2>2 DEF TableMatchesBackend, Owns, Stopped
<1> QED
  BY <1>6, <1>7, <1>8, <1>10, <1>11, <1>12

\* remove_subscription: whoever has the id in its table gets the answer.
LEMMA RemoveSubscriptionStep ==
    ASSUME TypeOK, Core, NEW d \in Destinations, RemoveSubscription(d), UNCHANGED sessionVars
    PROVE  Core'
<1> USE DEF Core, Consistent, Gone, Announced
<1> DEFINE a == First(actions[d])
           e == Unsubscribed(issued[a.id].sub, a.id)
<1>1. /\ a.client \in Clients /\ a \in Pending(actions[d]) /\ a.type = "Unsubscribe"
      /\ Ready(actions[d]) /\ a.id \in Ids /\ e \in ClientEvent
  <2>1. /\ a.client \in Clients /\ a \in Pending(actions[d]) /\ a.type = "Unsubscribe"
        /\ Ready(actions[d]) /\ a.id \in Nat
    BY HandlingTypes DEF RemoveSubscription, TypeOK
  <2>2. a.id \in Ids
    BY <2>1 DEF ActionsConsistent
  <2>3. issued[a.id].sub \in SubIds
    BY <2>2, IssuedTypes DEF TypeOK
  <2> QED
    BY <2>1, <2>2, <2>3 DEF Unsubscribed, ClientEvent
<1>2. /\ issued[a.id].client = a.client /\ issued[a.id].dest = d
      /\ e.type = "Unsubscribed" /\ e.sub = issued[a.id].sub /\ e.result = a.id
  BY <1>1 DEF ActionsConsistent, Unsubscribed
<1>3. /\ inbox'[a.client] = Push(inbox[a.client], e)
      /\ \A x \in Clients : /\ x # a.client => inbox'[x] = inbox[x]
                            /\ inbox'[x].open = inbox[x].open
                            /\ Pending(inbox[x]) \subseteq Pending(inbox'[x])
                            /\ Pending(inbox'[x]) \subseteq Pending(inbox[x]) \cup {e}
                            /\ ~Alive(x) => inbox'[x] = inbox[x]
      /\ Alive(a.client) => e \in Pending(inbox'[a.client])
  BY <1>1, SendEventEffect DEF RemoveSubscription, TypeOK
<1>4. \A x \in Destinations : Pending(actions'[x]) \subseteq Pending(actions[x])
  BY <1>1, HandledEffect DEF RemoveSubscription, TypeOK
<1>5. /\ UNCHANGED <<backend, issued, active, phase>>
      /\ \A x \in Destinations : x # d => subscriptions'[x] = subscriptions[x]
      /\ subscriptions'[d] = subscriptions[d] \ {a.id}
  BY DEF RemoveSubscription, sessionVars, TypeOK, DestTypeOK
<1> HIDE DEF a, e
<1>6. EventsConsistent'
  <2> SUFFICES ASSUME NEW x \in Clients, NEW f \in Pending(inbox'[x])
               PROVE  EventConsistent(x, f)'
    BY DEF EventsConsistent
  <2>1. CASE f \in Pending(inbox[x])
    BY <1>5, <2>1 DEF EventsConsistent, EventConsistent, Ids
  <2>2. CASE f \notin Pending(inbox[x])
    <3>1. f = e /\ x = a.client
      BY <1>3, <2>2
    <3> QED
      BY <1>1, <1>2, <1>5, <3>1 DEF EventConsistent, Ids
  <2> QED
    BY <2>1, <2>2
<1>7. TablesConsistent' /\ ActionsConsistent'
  BY <1>4, <1>5 DEF TablesConsistent, ActionsConsistent, Ids
<1>8. Gone'
  BY <1>3, <1>5 DEF ChannelClosedWithSession, EndedHaveNothing, ClosedAreEmpty, Alive
<1>9. \A j \in Ids : e \notin Announcements(j)
  BY <1>2 DEF Announcements
<1>10. AnnouncedOnce'
  <2> SUFFICES ASSUME NEW x \in Clients, NEW j \in Ids
               PROVE  AtMostOne(inbox'[x], Announcements(j))
    BY <1>5 DEF AnnouncedOnce, Announcements, Ids
  <2>1. inbox[x] \in ChannelOf(ClientEvent) /\ inbox[a.client] \in ChannelOf(ClientEvent)
    BY <1>1 DEF TypeOK, ProxyTypeOK
  <2>2. AtMostOne(inbox[x], Announcements(j))
    BY DEF AnnouncedOnce
  <2>3. CASE x = a.client
    BY <1>1, <1>3, <1>9, <2>1, <2>2, <2>3, PushAtMostOne
  <2>4. CASE x # a.client
    BY <1>3, <2>2, <2>4
  <2> QED
    BY <2>3, <2>4
<1>11. AnnouncedIsNew'
  <2> SUFFICES ASSUME NEW x \in Clients, NEW f \in Pending(inbox'[x]), NEW j \in Ids,
                      f \in Announcements(j)
               PROVE  /\ \A y \in active[x] : y.id # j
                      /\ \A b \in Pending(actions'[f.dest]) : b.type = "Unsubscribe" => b.id # j
                      /\ j \in subscriptions'[f.dest] \/ Stopped(f.dest)
    BY <1>5 DEF AnnouncedIsNew, Announcements, Ids, Stopped
  <2>1. f.dest \in Destinations /\ f.result = j /\ f.type = "Subscribed"
    BY DEF Announcements
  <2>2. f \in Pending(inbox[x])
    BY <1>3, <1>9
  <2>3. /\ \A y \in active[x] : y.id # j
        /\ \A b \in Pending(actions[f.dest]) : b.type = "Unsubscribe" => b.id # j
        /\ j \in subscriptions[f.dest] \/ Stopped(f.dest)
    BY <2>2 DEF AnnouncedIsNew
  <2>4. f.dest = d => j # a.id
    BY <1>1, <2>3
  <2> QED
    BY <1>4, <1>5, <2>1, <2>3, <2>4
<1>12. TableMatchesBackend'
  <2> SUFFICES ASSUME NEW x \in Clients, NEW y \in active[x]
               PROVE  \/ Owns(x, y)'
                      \/ Unsubscribed(y.sub, y.id) \in Pending(inbox'[x])
                      \/ Stopped(y.dest)
    BY <1>5 DEF TableMatchesBackend, Stopped
  <2>1. y.dest \in Destinations
    BY DEF TypeOK, SessionTypeOK, Entry
  <2>2. CASE y.id # a.id
    BY <1>3, <1>5, <2>1, <2>2 DEF TableMatchesBackend, Owns
  <2>3. CASE y.id = a.id
    <3>1. x = a.client /\ issued[a.id].sub = y.sub
      <4>1. issued[y.id] = [client |-> x, dest |-> y.dest, sub |-> y.sub]
        BY DEF TablesConsistent
      <4>2. issued[y.id].client = x /\ issued[y.id].sub = y.sub
        BY <4>1
      <4> QED
        BY <1>2, <2>3, <4>2
    <3>2. Alive(a.client)
      <4>1. phase[x] = "alive"
        BY DEF EndedHaveNothing
      <4> QED
        BY <3>1, <4>1 DEF ChannelClosedWithSession
    <3>3. Unsubscribed(y.sub, y.id) = e
      BY <2>3, <3>1 DEF e
    <3> QED
      BY <1>3, <3>1, <3>2, <3>3
  <2> QED
    BY <2>2, <2>3
<1> QED
  BY <1>6, <1>7, <1>8, <1>10, <1>11, <1>12

\* A destination stops: it has no subscriptions any more, and no actions.
LEMMA StopStep ==
    ASSUME TypeOK, Core, NEW d \in Destinations, NEW how \in {"closed", "panicked"},
           Stop(d, how), UNCHANGED <<inbox, active, phase>>
    PROVE  Core'
<1> USE DEF Core, Consistent, Gone, Announced
<1>1. /\ UNCHANGED issued /\ Stopped(d)'
      /\ Pending(actions'[d]) = {}
      /\ \A x \in Destinations : x # d => /\ actions'[x] = actions[x]
                                          /\ subscriptions'[x] = subscriptions[x]
                                          /\ backend'[x] = backend[x]
  BY EmptyChannels DEF Stop, Stopped, TypeOK, DestTypeOK
<1>2. EventsConsistent' /\ TablesConsistent' /\ ActionsConsistent'
  BY <1>1 DEF EventsConsistent, EventConsistent, TablesConsistent, ActionsConsistent, Ids
<1>3. Gone'
  BY DEF ChannelClosedWithSession, EndedHaveNothing, ClosedAreEmpty, Alive
<1>4. AnnouncedOnce'
  BY <1>1 DEF AnnouncedOnce, Announcements, Ids
<1>5. AnnouncedIsNew'
  <2> SUFFICES ASSUME NEW c \in Clients, NEW e \in Pending(inbox[c]), NEW i \in Ids,
                      e \in Announcements(i)
               PROVE  /\ \A x \in active[c] : x.id # i
                      /\ \A a \in Pending(actions'[e.dest]) : a.type = "Unsubscribe" => a.id # i
                      /\ i \in subscriptions'[e.dest] \/ Stopped(e.dest)'
    BY <1>1 DEF AnnouncedIsNew, Announcements, Ids
  <2>1. e.dest \in Destinations
    BY DEF Announcements
  <2> QED
    BY <1>1, <2>1 DEF AnnouncedIsNew, Stopped
<1>6. TableMatchesBackend'
  <2> SUFFICES ASSUME NEW c \in Clients, NEW e \in active[c]
               PROVE  \/ Owns(c, e)'
                      \/ Unsubscribed(e.sub, e.id) \in Pending(inbox[c])
                      \/ Stopped(e.dest)'
    BY DEF TableMatchesBackend
  <2>1. e.dest \in Destinations
    BY DEF TypeOK, SessionTypeOK, Entry
  <2> QED
    BY <1>1, <2>1 DEF TableMatchesBackend, Owns, Stopped
<1> QED
  BY <1>2, <1>3, <1>4, <1>5, <1>6

\* The pruning after the loop of send takes only ids that no session has in its
\* table or is about to be told of.
LEMMA EndSendStep ==
    ASSUME TypeOK, SendInHand, Core, DeadAreGone,
           NEW d \in Destinations, EndSend(d), UNCHANGED sessionVars
    PROVE  Core'
<1> USE DEF Core, Consistent, Gone, Announced
<1>1. \A x \in Destinations : Pending(actions'[x]) \subseteq Pending(actions[x])
  BY HandledEffect DEF EndSend, SendInHand, TypeOK
<1>2. /\ UNCHANGED <<issued, inbox, active, phase>>
      /\ \A x \in Destinations : /\ Stopped(x) => Stopped(x)'
                                 /\ x # d => subscriptions'[x] = subscriptions[x]
      /\ subscriptions'[d] = subscriptions[d] \ dead[d]
  BY DEF EndSend, Stopped, sessionVars, proxyVars, TypeOK, DestTypeOK
<1>3. EventsConsistent' /\ TablesConsistent' /\ ActionsConsistent'
  BY <1>1, <1>2
     DEF EventsConsistent, EventConsistent, TablesConsistent, ActionsConsistent, Ids
<1>4. Gone'
  BY <1>2 DEF ChannelClosedWithSession, EndedHaveNothing, ClosedAreEmpty, Alive
<1>5. AnnouncedOnce'
  BY <1>2 DEF AnnouncedOnce, Announcements, Ids
<1>6. AnnouncedIsNew'
  <2> SUFFICES ASSUME NEW c \in Clients, NEW e \in Pending(inbox[c]), NEW i \in Ids,
                      e \in Announcements(i)
               PROVE  /\ \A x \in active[c] : x.id # i
                      /\ \A a \in Pending(actions'[e.dest]) : a.type = "Unsubscribe" => a.id # i
                      /\ i \in subscriptions'[e.dest] \/ Stopped(e.dest)'
    BY <1>2 DEF AnnouncedIsNew, Announcements, Ids
  <2>1. e.dest \in Destinations /\ e.type = "Subscribed" /\ e.result = i
    BY DEF Announcements
  <2>2. i # Failed
    BY IssuedTypes DEF TypeOK, Failed
  <2>3. issued[i].client = c
    <3>1. issued[i] = [client |-> c, dest |-> e.dest, sub |-> e.sub]
      BY <2>1, <2>2 DEF EventsConsistent, EventConsistent
    <3> QED
      BY <3>1
  <2>4. Alive(c)
    BY DEF ClosedAreEmpty
  <2>5. i \notin dead[e.dest]
    BY <2>1, <2>3, <2>4 DEF DeadAreGone
  <2> QED
    BY <1>1, <1>2, <2>1, <2>5 DEF AnnouncedIsNew
<1>7. TableMatchesBackend'
  <2> SUFFICES ASSUME NEW c \in Clients, NEW e \in active[c]
               PROVE  \/ Owns(c, e)'
                      \/ Unsubscribed(e.sub, e.id) \in Pending(inbox[c])
                      \/ Stopped(e.dest)'
    BY <1>2 DEF TableMatchesBackend
  <2>1. e.dest \in Destinations
    BY DEF TypeOK, SessionTypeOK, Entry
  <2>2. issued[e.id].client = c
    <3>1. issued[e.id] = [client |-> c, dest |-> e.dest, sub |-> e.sub]
      BY DEF TablesConsistent
    <3> QED
      BY <3>1
  <2>3. phase[c] = "alive"
    BY DEF EndedHaveNothing
  <2>4. Alive(c)
    BY <2>3 DEF ChannelClosedWithSession
  <2>5. e.id \notin dead[e.dest]
    BY <2>1, <2>2, <2>4 DEF DeadAreGone
  <2> QED
    BY <1>2, <2>1, <2>5 DEF TableMatchesBackend, Owns
<1> QED
  BY <1>3, <1>4, <1>5, <1>6, <1>7

\* UNSUBSCRIBE names an id that its session has in its table.
LEMMA UnsubscribeStep ==
    ASSUME TypeOK, Core, NEW c \in Clients, NEW e \in active[c], ClientUnsubscribes(c, e)
    PROVE  Core'
<1> USE DEF Core, Consistent, Gone, Announced
<1> DEFINE u == UnsubscribeAction(c, e.id)
<1>1. /\ e.dest \in Destinations /\ e.id \in Ids /\ u \in DestinationAction
      /\ issued[e.id] = [client |-> c, dest |-> e.dest, sub |-> e.sub]
  <2>1. e.dest \in Destinations /\ e.id \in Nat
    BY DEF TypeOK, SessionTypeOK, Entry
  <2>2. e.id \in Ids /\ issued[e.id] = [client |-> c, dest |-> e.dest, sub |-> e.sub]
    BY DEF TablesConsistent
  <2> QED
    BY <2>1, <2>2 DEF UnsubscribeAction, DestinationAction
<1>2. /\ u.type = "Unsubscribe" /\ u.id = e.id /\ u.client = c
      /\ issued[e.id].client = c /\ issued[e.id].dest = e.dest
  BY <1>1 DEF UnsubscribeAction
<1>3. \A x \in Destinations : /\ x # e.dest => actions'[x] = actions[x]
                              /\ Pending(actions'[x]) \subseteq Pending(actions[x]) \cup {u}
  <2>1. CASE backend[e.dest] = "absent"
    BY <2>1 DEF ClientUnsubscribes, UnsubscribeIfPresent
  <2>2. CASE backend[e.dest] # "absent"
    BY <1>1, <2>2, PerformActionEffect
       DEF ClientUnsubscribes, UnsubscribeIfPresent, Unsubscribe, TypeOK
  <2> QED
    BY <2>1, <2>2
<1>4. UNCHANGED <<backend, issued, subscriptions, inbox, active, phase>>
  BY DEF ClientUnsubscribes, UnsubscribeFrame, proxyVars
<1> HIDE DEF u
<1>5. EventsConsistent' /\ TablesConsistent'
  BY <1>4 DEF EventsConsistent, EventConsistent, TablesConsistent, Ids
<1>6. ActionsConsistent'
  <2> SUFFICES ASSUME NEW d \in Destinations, NEW a \in Pending(actions'[d]),
                      a.type = "Unsubscribe"
               PROVE  a.id \in Ids /\ issued[a.id].client = a.client /\ issued[a.id].dest = d
    BY <1>4 DEF ActionsConsistent, Ids
  <2>1. CASE a \in Pending(actions[d])
    BY <2>1 DEF ActionsConsistent
  <2>2. CASE a \notin Pending(actions[d])
    <3>1. a = u /\ d = e.dest
      BY <1>3, <2>2
    <3> QED
      BY <1>1, <1>2, <3>1
  <2> QED
    BY <2>1, <2>2
<1>7. Gone'
  BY <1>4 DEF ChannelClosedWithSession, EndedHaveNothing, ClosedAreEmpty, Alive
<1>8. AnnouncedOnce'
  BY <1>4 DEF AnnouncedOnce, Announcements, Ids
<1>9. AnnouncedIsNew'
  <2> SUFFICES ASSUME NEW x \in Clients, NEW f \in Pending(inbox[x]), NEW i \in Ids,
                      f \in Announcements(i)
               PROVE  /\ \A y \in active[x] : y.id # i
                      /\ \A a \in Pending(actions'[f.dest]) : a.type = "Unsubscribe" => a.id # i
                      /\ i \in subscriptions[f.dest] \/ Stopped(f.dest)
    BY <1>4 DEF AnnouncedIsNew, Announcements, Ids, Stopped
  <2>1. f.dest \in Destinations /\ f.type = "Subscribed" /\ f.result = i
    BY DEF Announcements
  <2>2. i # Failed
    BY IssuedTypes DEF TypeOK, Failed
  <2>3. issued[i].client = x
    <3>1. issued[i] = [client |-> x, dest |-> f.dest, sub |-> f.sub]
      BY <2>1, <2>2 DEF EventsConsistent, EventConsistent
    <3> QED
      BY <3>1
  <2>4. \A y \in active[x] : y.id # i
    BY DEF AnnouncedIsNew
  <2>5. i # e.id
    BY <1>2, <2>3, <2>4
  <2> QED
    BY <1>2, <1>3, <2>1, <2>4, <2>5 DEF AnnouncedIsNew
<1>10. TableMatchesBackend'
  BY <1>4 DEF TableMatchesBackend, Owns, Stopped
<1> QED
  BY <1>5, <1>6, <1>7, <1>8, <1>9, <1>10

\* subscribed(): the id announced goes into the table, and nobody else is told.
LEMMA OnSubscribedStep ==
    ASSUME TypeOK, Core, NEW c \in Clients, OnSubscribed(c), UNCHANGED <<destVars, lookups>>
    PROVE  Core'
<1> USE DEF Core, Consistent, Gone, Announced
<1> DEFINE e == NextEvent(c)
           filed == [sub |-> e.sub, dest |-> e.dest, id |-> e.result]
<1>1. /\ e \in ClientEvent /\ e \in Pending(inbox[c]) /\ e.type = "Subscribed"
      /\ inbox'[c] = Pop(inbox[c]) /\ Ready(inbox[c])
      /\ Pending(inbox[c]) \subseteq Pending(inbox'[c]) \cup {e}
      /\ \A x \in Clients : /\ x # c => inbox'[x] = inbox[x]
                            /\ inbox'[x].open = inbox[x].open
                            /\ Pending(inbox'[x]) \subseteq Pending(inbox[x])
  BY TakeEventEffect DEF OnSubscribed, Event, TypeOK
<1>2. e.dest \in Destinations /\ e.sub \in SubIds /\ e.result \in Nat
  BY <1>1 DEF ClientEvent, Error, Close
<1>3. /\ UNCHANGED <<backend, actions, issued, subscriptions, phase>>
      /\ phase[c] = "alive"
      /\ \A x \in Clients : x # c => active'[x] = active[x]
      /\ e.result = Failed => active'[c] = active[c]
      /\ e.result # Failed =>
           active'[c] = {x \in active[c] : x.sub # e.sub} \cup {filed}
  BY DEF OnSubscribed, Event, destVars, TypeOK, SessionTypeOK
<1>4. e.result # Failed =>
        /\ e.result \in Ids
        /\ issued[e.result] = [client |-> c, dest |-> e.dest, sub |-> e.sub]
  BY <1>1 DEF EventsConsistent, EventConsistent
<1>5. /\ filed.sub = e.sub /\ filed.dest = e.dest /\ filed.id = e.result
      /\ e.result # Failed => e \in Announcements(e.result)
  <2>1. e.result # Failed => e \in Announcements(e.result)
    BY <1>1 DEF ClientEvent, Announcements, Error, Close
  <2> QED
    BY <2>1
<1> HIDE DEF e, filed
<1>6. \A i \in Ids : AtMostOne(inbox'[c], Announcements(i))
                     /\ (e \in Announcements(i) => Pending(inbox'[c]) \cap Announcements(i) = {})
  <2>1. inbox[c] \in ChannelOf(ClientEvent)
    BY DEF TypeOK, ProxyTypeOK
  <2> QED
    BY <1>1, <2>1, PopAtMostOne DEF AnnouncedOnce, e, NextEvent
<1>7. EventsConsistent' /\ ActionsConsistent'
  BY <1>1, <1>3 DEF EventsConsistent, EventConsistent, ActionsConsistent, Ids
<1>8. TablesConsistent'
  <2> SUFFICES ASSUME NEW x \in Clients, NEW y \in active'[x]
               PROVE  y.id \in Ids /\ issued[y.id] = [client |-> x, dest |-> y.dest, sub |-> y.sub]
    BY <1>3 DEF TablesConsistent, Ids
  <2>1. CASE y \in active[x]
    BY <2>1 DEF TablesConsistent
  <2>2. CASE y \notin active[x]
    <3>1. x = c /\ y = filed /\ e.result # Failed
      BY <1>3, <2>2
    <3> QED
      BY <1>4, <1>5, <3>1
  <2> QED
    BY <2>1, <2>2
<1>9. Gone'
  BY <1>1, <1>3 DEF ChannelClosedWithSession, EndedHaveNothing, ClosedAreEmpty, Alive
<1>10. AnnouncedOnce'
  BY <1>1, <1>3, <1>6 DEF AnnouncedOnce, Announcements, Ids
<1>11. AnnouncedIsNew'
  <2> SUFFICES ASSUME NEW x \in Clients, NEW f \in Pending(inbox'[x]), NEW i \in Ids,
                      f \in Announcements(i)
               PROVE  /\ \A y \in active'[x] : y.id # i
                      /\ \A a \in Pending(actions[f.dest]) : a.type = "Unsubscribe" => a.id # i
                      /\ i \in subscriptions[f.dest] \/ Stopped(f.dest)
    BY <1>3 DEF AnnouncedIsNew, Announcements, Ids, Stopped
  <2>1. f \in Pending(inbox[x])
    BY <1>1
  <2>2. x = c /\ e.result # Failed => e.result # i
    BY <1>5, <1>6
  <2>3. \A y \in active'[x] : y \in active[x] \/ (x = c /\ e.result # Failed /\ y = filed)
    BY <1>3
  <2> QED
    BY <1>5, <2>1, <2>2, <2>3 DEF AnnouncedIsNew
<1>12. TableMatchesBackend'
  <2> SUFFICES ASSUME NEW x \in Clients, NEW y \in active'[x]
               PROVE  \/ Owns(x, y)
                      \/ Unsubscribed(y.sub, y.id) \in Pending(inbox'[x])
                      \/ Stopped(y.dest)
    BY <1>3 DEF TableMatchesBackend, Owns, Stopped
  <2>1. CASE y \in active[x]
    <3>1. Unsubscribed(y.sub, y.id) # e
      BY <1>1 DEF Unsubscribed
    <3> QED
      BY <1>1, <2>1, <3>1 DEF TableMatchesBackend
  <2>2. CASE y \notin active[x]
    <3>1. x = c /\ y = filed /\ e.result # Failed
      BY <1>3, <2>2
    <3>2. e.result \in subscriptions[e.dest] \/ Stopped(e.dest)
      BY <1>1, <1>4, <1>5, <3>1 DEF AnnouncedIsNew
    <3> QED
      BY <1>4, <1>5, <3>1, <3>2 DEF Owns
  <2> QED
    BY <2>1, <2>2
<1> QED
  BY <1>7, <1>8, <1>9, <1>10, <1>11, <1>12

\* unsubscribed(): nothing stays in the table under the id answered for.
LEMMA OnUnsubscribedStep ==
    ASSUME TypeOK, Core, NEW c \in Clients, OnUnsubscribed(c), UNCHANGED <<destVars, lookups>>
    PROVE  Core'
<1> USE DEF Core, Consistent, Gone, Announced
<1> DEFINE e == NextEvent(c)
<1>1. /\ e \in Pending(inbox[c]) /\ e.type = "Unsubscribed"
      /\ Pending(inbox[c]) \subseteq Pending(inbox'[c]) \cup {e}
      /\ inbox'[c] = Pop(inbox[c]) /\ Ready(inbox[c])
      /\ \A x \in Clients : /\ x # c => inbox'[x] = inbox[x]
                            /\ inbox'[x].open = inbox[x].open
                            /\ Pending(inbox'[x]) \subseteq Pending(inbox[x])
  BY TakeEventEffect DEF OnUnsubscribed, Event, TypeOK
<1>2. e.result \in Ids
  BY <1>1 DEF EventsConsistent, EventConsistent
<1>3. /\ UNCHANGED <<backend, actions, issued, subscriptions, phase>>
      /\ \A x \in Clients : x # c => active'[x] = active[x]
      /\ active'[c] = {x \in active[c] : x.sub # e.sub}
  <2>1. e.result # Failed
    BY <1>2, IssuedTypes DEF TypeOK, Failed
  <2> QED
    BY <2>1 DEF OnUnsubscribed, Event, destVars, TypeOK, SessionTypeOK
<1> HIDE DEF e
<1>4. \A x \in Clients : active'[x] \subseteq active[x]
  BY <1>3
<1>5. EventsConsistent' /\ ActionsConsistent' /\ TablesConsistent'
  BY <1>1, <1>3, <1>4
     DEF EventsConsistent, EventConsistent, ActionsConsistent, TablesConsistent, Ids
<1>6. Gone'
  BY <1>1, <1>3, <1>4 DEF ChannelClosedWithSession, EndedHaveNothing, ClosedAreEmpty, Alive
<1>7. AnnouncedOnce'
  <2>1. inbox[c] \in ChannelOf(ClientEvent)
    BY DEF TypeOK, ProxyTypeOK
  <2>2. \A i \in Ids : AtMostOne(inbox'[c], Announcements(i))
    BY <1>1, <2>1, PopAtMostOne DEF AnnouncedOnce
  <2> QED
    BY <1>1, <1>3, <2>2 DEF AnnouncedOnce, Announcements, Ids
<1>8. AnnouncedIsNew'
  BY <1>1, <1>3, <1>4 DEF AnnouncedIsNew, Announcements, Stopped, Ids
<1>9. TableMatchesBackend'
  <2> SUFFICES ASSUME NEW x \in Clients, NEW y \in active'[x]
               PROVE  \/ Owns(x, y)
                      \/ Unsubscribed(y.sub, y.id) \in Pending(inbox'[x])
                      \/ Stopped(y.dest)
    BY <1>3 DEF TableMatchesBackend, Owns, Stopped
  <2>1. y \in active[x]
    BY <1>4
  <2>2. x = c => Unsubscribed(y.sub, y.id) # e
    BY <1>3 DEF Unsubscribed
  <2> QED
    BY <1>1, <2>1, <2>2 DEF TableMatchesBackend
<1> QED
  BY <1>5, <1>6, <1>7, <1>8, <1>9

\* An Error taken, and the Close that follows from it, announce nothing.
LEMMA OnErrorInboxes ==
    ASSUME TypeOK, AnnouncedOnce, NEW c \in Clients, Alive(c), OnError(c)
    PROVE  InboxesPlain
<1> DEFINE rest == Pop(inbox[c])
<1>1. /\ inbox[c] \in ChannelOf(ClientEvent) /\ Ready(inbox[c])
      /\ First(inbox[c]).type = "Error"
      /\ inbox' = [inbox EXCEPT ![c] = Push(rest, Close)]
      /\ inbox \in [Clients -> ChannelOf(ClientEvent)]
  BY DEF OnError, Event, NextEvent, TypeOK, ProxyTypeOK
<1>2. Close \in PlainEvent /\ Close \in ClientEvent
  BY DEF PlainEvent, ClientEvent, Close
<1>3. /\ rest \in ChannelOf(ClientEvent) /\ rest.open = inbox[c].open
      /\ First(inbox[c]) \in PlainEvent
      /\ Pending(rest) \subseteq Pending(inbox[c])
      /\ Pending(inbox[c]) \subseteq Pending(rest) \cup {First(inbox[c])}
  BY <1>1, PopProperties DEF PlainEvent
<1>4. /\ Push(rest, Close).open = inbox[c].open
      /\ Pending(rest) \subseteq Pending(Push(rest, Close))
      /\ Pending(Push(rest, Close)) \subseteq Pending(rest) \cup {Close}
  BY <1>2, <1>3, PushProperties
<1>5. ASSUME NEW i \in Ids
      PROVE  AtMostOne(Push(rest, Close), Announcements(i))
  <2>1. Close \notin Announcements(i)
    BY <1>2, PlainAnnouncesNothing
  <2>2. AtMostOne(rest, Announcements(i))
    BY <1>1, PopAtMostOne DEF AnnouncedOnce
  <2> QED
    BY <1>2, <1>3, <2>1, <2>2, PushAtMostOne
<1> QED
  BY <1>1, <1>2, <1>3, <1>4, <1>5 DEF InboxesPlain, AnnouncedOnce

-----------------------------------------------------------------------------
(* Every step.                                                             *)

\* The steps of a session alone.
LEMMA SessionStepKinds ==
    ASSUME TypeOK, Core, NEW c \in Clients, SessionStep(c), UNCHANGED <<destVars, lookups>>
    PROVE  \/ Plain
           \/ \E how \in {"lingering", "closed", "panicked"} : End(c, how)
           \/ OnSubscribed(c) \/ OnUnsubscribed(c)
<1>1. AnnouncedOnce
  BY DEF Core, Announced
<1>2. /\ UNCHANGED <<issued, subscriptions>> /\ ActionsPlain /\ BackendsPlain
  BY DEF destVars, ActionsPlain, BackendsPlain, Stopped
<1>3. phase[c] = "alive" => Alive(c)
  BY DEF Core, Gone, ChannelClosedWithSession
<1>4. ASSUME InboxesPlain, PhasesPlain, UNCHANGED active
      PROVE  Plain
  BY <1>2, <1>4 DEF Plain
<1>5. Error \in PlainEvent /\ Close \in PlainEvent
  BY DEF PlainEvent, ClientEvent, Error, Close
<1>6. CASE Connect(c)
  <2>1. InboxesPlain
    BY <1>1, <1>6, InboxesUntouched DEF Connect
  <2>2. PhasesPlain /\ UNCHANGED active
    BY <1>6 DEF Connect, PhasesPlain, TypeOK, SessionTypeOK
  <2> QED
    BY <1>4, <2>1, <2>2
<1>7. ASSUME Fail(c), UNCHANGED <<phase, active>>
      PROVE  Plain
  <2>1. InboxesPlain
    BY <1>1, <1>5, <1>7, SendPlainEvent DEF Fail
  <2> QED
    BY <1>4, <1>7, <2>1 DEF PhasesPlain
<1>8. CASE BadFrame(c) \/ \E s \in SubIds : UnknownUnsubscribe(c, s)
  BY <1>7, <1>8 DEF BadFrame, UnknownUnsubscribe
<1>9. CASE Reject(c) \/ Disconnect(c) \/ UnhandledFrame(c) \/ EndOfStream(c) \/ SinkFails(c)
           \/ OnClose(c)
  BY <1>9 DEF Reject, Disconnect, UnhandledFrame, EndOfStream, SinkFails, OnClose
<1>10. CASE OnServerMessage(c)
  <2>1. /\ Ready(inbox[c]) /\ NextEvent(c).type = "ServerMessage" /\ TakeEvent(c)
        /\ phase[c] = "alive" /\ UNCHANGED <<phase, active>>
    BY <1>10 DEF OnServerMessage, Event
  <2>2. NextEvent(c) \in ClientEvent
    BY <2>1, TakeEventEffect DEF TypeOK
  <2>3. NextEvent(c) \in PlainEvent
    BY <2>1, <2>2 DEF PlainEvent
  <2>4. InboxesPlain
    BY <1>1, <1>3, <2>1, <2>3, TakePlainEvent
  <2> QED
    BY <1>4, <2>1, <2>4 DEF PhasesPlain
<1>11. CASE OnError(c)
  <2>1. phase[c] = "alive" /\ UNCHANGED <<phase, active>>
    BY <1>11 DEF OnError, Event
  <2>2. InboxesPlain
    BY <1>1, <1>3, <1>11, <2>1, OnErrorInboxes
  <2> QED
    BY <1>4, <2>1, <2>2 DEF PhasesPlain
<1>12. CASE Heartbeat(c)
  BY <1>1, <1>4, <1>12, InboxesUntouched DEF Heartbeat, PhasesPlain
<1>13. CASE MissHeartbeat(c)
  <2>1. InboxesPlain
    BY <1>1, <1>5, <1>13, SendPlainEvent DEF MissHeartbeat
  <2> QED
    BY <1>4, <1>13, <2>1 DEF MissHeartbeat, PhasesPlain
<1>14. CASE LingerEnds(c)
  <2>1. InboxesPlain
    BY <1>1, <1>14, InboxesUntouched DEF LingerEnds
  <2>2. PhasesPlain /\ UNCHANGED active
    BY <1>14 DEF LingerEnds, PhasesPlain, TypeOK, SessionTypeOK
  <2> QED
    BY <1>4, <2>1, <2>2
<1> QED
  BY <1>6, <1>8, <1>9, <1>10, <1>11, <1>12, <1>13, <1>14
     DEF SessionStep, HandleEvent

\* The frames a destination has a part in.
LEMMA ClientFrameKinds ==
    ASSUME TypeOK, Core, NEW c \in Clients, ClientFrame(c)
    PROVE  \/ Plain
           \/ \E e \in active[c] : ClientUnsubscribes(c, e)
           \/ End(c, "panicked") /\ UNCHANGED <<destVars, lookups>>
<1>1. AnnouncedOnce
  BY DEF Core, Announced
<1>2. ASSUME NEW d \in Destinations, NEW s \in SubIds, ClientSubscribes(c, d, s)
      PROVE  Plain
  <2>1. UNCHANGED <<backend, actions, issued, subscriptions, active, phase, inbox>>
    BY <1>2 DEF ClientSubscribes, SubscribeFrame, destVars, proxyVars
  <2>2. InboxesPlain
    BY <1>1, <2>1, InboxesUntouched
  <2>3. ActionsPlain /\ PhasesPlain /\ BackendsPlain
    BY <2>1 DEF ActionsPlain, PhasesPlain, BackendsPlain, Stopped
  <2> QED
    BY <2>1, <2>2, <2>3 DEF Plain
<1>3. ASSUME NEW d \in Destinations, NEW m \in Messages, ClientSends(c, d, m)
      PROVE  Plain
  <2>1. UNCHANGED <<backend, issued, subscriptions, active, phase, inbox>>
    BY <1>3 DEF ClientSends, SendFrame, proxyVars
  <2>2. InboxesPlain
    BY <1>1, <2>1, InboxesUntouched
  <2>3. ActionsPlain
    <3>1. SendAction(m) \in PlainAction
      BY DEF SendAction, PlainAction, DestinationAction
    <3>2. CASE backend[d] = "absent"
      BY <1>3, <3>2 DEF ClientSends, SendIfPresent, ActionsPlain
    <3>3. CASE backend[d] # "absent"
      BY <1>3, <3>1, <3>3, PerformPlainAction DEF ClientSends, SendIfPresent, Send
    <3> QED
      BY <3>2, <3>3
  <2>4. PhasesPlain /\ BackendsPlain
    BY <2>1 DEF PhasesPlain, BackendsPlain, Stopped
  <2> QED
    BY <2>1, <2>2, <2>3, <2>4 DEF Plain
<1>4. ASSUME NEW e \in active[c], ClientUnsubscribePanics(c, e)
      PROVE  End(c, "panicked") /\ UNCHANGED <<destVars, lookups>>
  BY <1>4 DEF ClientUnsubscribePanics, UnsubscribePanic
<1> QED
  BY <1>2, <1>3, <1>4 DEF ClientFrame

\* The steps of the map's tasks, of the destinations' tasks, and of who closes
\* a destination.
LEMMA DestinationStepKinds ==
    ASSUME TypeOK, SendInHand, Core, UNCHANGED sessionVars,
           DestinationStep \/ \E d \in Destinations : CloseDestination(d)
    PROVE  \/ Plain
           \/ \E d \in Destinations :
                \/ AddSubscription(d) \/ RemoveSubscription(d) \/ EndSend(d)
                \/ \E how \in {"closed", "panicked"} : Stop(d, how) /\ UNCHANGED inbox
<1>1. AnnouncedOnce
  BY DEF Core, Announced
<1>2. UNCHANGED <<active, phase>> /\ PhasesPlain
  BY DEF sessionVars, PhasesPlain
<1>3. ASSUME NEW d \in Destinations, MapCreates(d)
      PROVE  Plain
  <2>1. UNCHANGED <<issued, subscriptions, inbox>> /\ BackendsPlain
    BY <1>3 DEF MapCreates, Create, proxyVars, BackendsPlain, Stopped, TypeOK, DestTypeOK
  <2>2. ActionsPlain
    BY <1>3, EmptyChannels DEF MapCreates, Create, ActionsPlain, TypeOK, DestTypeOK
  <2> QED
    BY <1>1, <1>2, <2>1, <2>2, InboxesUntouched DEF Plain
<1>4. ASSUME NEW l \in lookups, SubscribeFound(l)
      PROVE  Plain
  <2>1. /\ l.client \in Clients /\ l.dest \in Destinations /\ l.sub \in SubIds
        /\ UNCHANGED <<backend, issued, subscriptions>>
    BY <1>4 DEF SubscribeFound, TypeOK, MapTypeOK, Lookup
  <2>2. ActionsPlain
    <3>1. SubscribeAction(l.client, l.sub) \in PlainAction
      BY <2>1 DEF SubscribeAction, PlainAction, DestinationAction
    <3> QED
      BY <1>4, <2>1, <3>1, PerformPlainAction DEF SubscribeFound, Subscribe
  <2>3. InboxesPlain
    <3>1. Subscribed(l.dest, l.sub, Failed) \in PlainEvent
      BY <2>1 DEF Subscribed, PlainEvent, ClientEvent, Failed
    <3>2. CASE actions[l.dest].open
      BY <1>1, <1>4, <3>2, InboxesUntouched DEF SubscribeFound, Subscribe
    <3>3. CASE ~actions[l.dest].open
      BY <1>1, <1>4, <2>1, <3>1, <3>3, SendPlainEvent DEF SubscribeFound, Subscribe
    <3> QED
      BY <3>2, <3>3
  <2>4. BackendsPlain
    BY <2>1 DEF BackendsPlain, Stopped
  <2> QED
    BY <1>2, <2>1, <2>2, <2>3, <2>4 DEF Plain
<1>5. ASSUME NEW d \in Destinations, Backend(d)
      PROVE  \/ Plain
             \/ AddSubscription(d) \/ RemoveSubscription(d) \/ EndSend(d)
             \/ \E how \in {"closed", "panicked"} : Stop(d, how) /\ UNCHANGED inbox
  <2>1. CASE RemoveUnknownSubscription(d) \/ CloseBackend(d)
    BY <2>1 DEF RemoveUnknownSubscription, CloseBackend, proxyVars
  <2>2. CASE BeginSend(d)
    <3>1. UNCHANGED <<actions, issued, subscriptions, inbox>> /\ BackendsPlain /\ ActionsPlain
      BY <2>2 DEF BeginSend, Handling, proxyVars, BackendsPlain, ActionsPlain, Stopped,
                  TypeOK, DestTypeOK
    <3> QED
      BY <1>1, <1>2, <3>1, InboxesUntouched DEF Plain
  <2>3. ASSUME NEW i \in todo[d], SendTo(d, i)
        PROVE  Plain
    <3>1. i \in Ids /\ issued[i].client \in Clients /\ issued[i].sub \in SubIds /\ i \in Nat
      <4>1. i \in Ids
        BY DEF TypeOK, DestTypeOK
      <4> QED
        BY <4>1, IssuedTypes DEF TypeOK
    <3>2. First(actions[d]).message \in Messages
      BY <2>3, SendActionTypes DEF SendTo, SendInHand, TypeOK
    <3>3. ServerMessage(issued[i].sub, i, First(actions[d]).message) \in PlainEvent
      BY <3>1, <3>2 DEF ServerMessage, PlainEvent, ClientEvent
    <3>4. InboxesPlain
      BY <1>1, <2>3, <3>1, <3>3, SendPlainEvent DEF SendTo
    <3>5. UNCHANGED <<issued, subscriptions>> /\ ActionsPlain /\ BackendsPlain
      BY <2>3 DEF SendTo, ActionsPlain, BackendsPlain, Stopped
    <3> QED
      BY <1>2, <3>4, <3>5 DEF Plain
  <2> QED
    BY <1>5, <2>1, <2>2, <2>3 DEF Backend
<1>6. ASSUME NEW d \in Destinations, CloseDestination(d)
      PROVE  Plain
  <2>1. UNCHANGED <<backend, issued, subscriptions, inbox>>
    BY <1>6 DEF CloseDestination, proxyVars
  <2>2. ActionsPlain
    <3>1. CloseAction \in PlainAction
      BY DEF CloseAction, PlainAction, DestinationAction
    <3> QED
      BY <1>6, <3>1, PerformPlainAction DEF CloseDestination, CloseHandle
  <2>3. InboxesPlain /\ BackendsPlain
    BY <1>1, <2>1, InboxesUntouched DEF BackendsPlain, Stopped
  <2> QED
    BY <1>2, <2>1, <2>2, <2>3 DEF Plain
<1> QED
  BY <1>3, <1>4, <1>5, <1>6 DEF DestinationStep

\* A step that changes no variable of the system.
LEMMA StutteringIsPlain ==
    ASSUME Core, UNCHANGED vars
    PROVE  Plain
<1>1. UNCHANGED <<backend, actions, issued, subscriptions, inbox, active, phase>>
  BY DEF vars, destVars, proxyVars, sessionVars
<1>2. InboxesPlain
  BY <1>1, InboxesUntouched DEF Core, Announced
<1> QED
  BY <1>1, <1>2 DEF Plain, ActionsPlain, PhasesPlain, BackendsPlain, Stopped

\* All the kinds of steps there are.
SessionEnds == \E c \in Clients : \E how \in {"lingering", "closed", "panicked"} :
                 End(c, how) /\ UNCHANGED <<destVars, lookups>>
BackendStops == \E d \in Destinations : \E how \in {"closed", "panicked"} :
                  Stop(d, how) /\ UNCHANGED <<inbox, active, phase>>

\* A step is plain, or it ends a session or a destination, or it is one of the
\* six in the life of an id.
LEMMA StepKinds ==
    ASSUME TypeOK, SendInHand, Core, [Next]_vars
    PROVE  \/ Plain
           \/ SessionEnds
           \/ BackendStops
           \/ \E c \in Clients : /\ OnSubscribed(c) \/ OnUnsubscribed(c)
                                 /\ UNCHANGED <<destVars, lookups>>
           \/ \E c \in Clients : \E e \in active[c] : ClientUnsubscribes(c, e)
           \/ \E d \in Destinations : /\ AddSubscription(d) \/ RemoveSubscription(d) \/ EndSend(d)
                                      /\ UNCHANGED sessionVars
<1>1. ASSUME NEW c \in Clients, SessionStep(c), UNCHANGED <<destVars, lookups>>
      PROVE  Plain \/ SessionEnds \/ OnSubscribed(c) \/ OnUnsubscribed(c)
  BY <1>1, SessionStepKinds DEF SessionEnds
<1>2. ASSUME NEW c \in Clients, ClientFrame(c)
      PROVE  Plain \/ SessionEnds \/ \E e \in active[c] : ClientUnsubscribes(c, e)
  BY <1>2, ClientFrameKinds DEF SessionEnds
<1>3. ASSUME UNCHANGED sessionVars,
             DestinationStep \/ \E d \in Destinations : CloseDestination(d)
      PROVE  \/ Plain \/ BackendStops
             \/ \E d \in Destinations : AddSubscription(d) \/ RemoveSubscription(d) \/ EndSend(d)
  <2>1. UNCHANGED <<active, phase>>
    BY <1>3 DEF sessionVars
  <2> QED
    BY <1>3, <2>1, DestinationStepKinds DEF BackendStops
<1>4. CASE UNCHANGED vars
  BY <1>4, StutteringIsPlain
<1>5. \A d \in Destinations : CloseDestination(d) => UNCHANGED sessionVars
  BY DEF CloseDestination
<1> QED
  BY <1>1, <1>2, <1>3, <1>4, <1>5 DEF Next

\* Every step preserves what the invariant says of ids, tables and channels.
LEMMA CoreStep ==
    ASSUME TypeOK, SendInHand, Core, DeadAreGone, [Next]_vars
    PROVE  Core'
<1>1. CASE SessionEnds
  BY <1>1, EndStep DEF SessionEnds
<1>2. CASE BackendStops
  BY <1>2, StopStep DEF BackendStops
<1> QED
  BY <1>1, <1>2, StepKinds, PlainStep, OnSubscribedStep, OnUnsubscribedStep, UnsubscribeStep,
     AddSubscriptionStep, RemoveSubscriptionStep, EndSendStep

-----------------------------------------------------------------------------
(* The ids given up.                                                       *)

\* The channel of a session that is gone is never opened again: all the code
\* does to it is send, recv and drop.
LEMMA NeverReopened ==
    ASSUME TypeOK, SendInHand, [Next]_vars
    PROVE  \A x \in Clients : inbox'[x].open => inbox[x].open
<1> DEFINE Goal == \A x \in Clients : inbox'[x].open => inbox[x].open
<1>1. ASSUME UNCHANGED inbox
      PROVE  Goal
  BY <1>1
<1>2. ASSUME NEW c \in Clients, NEW e \in ClientEvent, SendEvent(c, e)
      PROVE  Goal
  BY <1>2, SendEventEffect DEF TypeOK
<1>3. ASSUME NEW c \in Clients, Ready(inbox[c]), TakeEvent(c)
      PROVE  Goal
  BY <1>3, TakeEventEffect DEF TypeOK
<1>4. ASSUME NEW c \in Clients, DropInbox(c)
      PROVE  Goal
  BY <1>4, DropInboxEffect DEF TypeOK
<1> SUFFICES Goal
  OBVIOUS
<1> HIDE DEF Goal
<1>5. ASSUME NEW c \in Clients, SessionStep(c)
      PROVE  Goal
  <2>1. CASE Connect(c) \/ Heartbeat(c) \/ LingerEnds(c)
    BY <1>1, <2>1 DEF Connect, Heartbeat, LingerEnds
  <2>2. CASE Reject(c) \/ Disconnect(c) \/ UnhandledFrame(c) \/ EndOfStream(c) \/ SinkFails(c)
             \/ OnClose(c)
    BY <1>4, <2>2 DEF Reject, Disconnect, UnhandledFrame, EndOfStream, SinkFails, OnClose, End
  <2>3. CASE BadFrame(c) \/ (\E s \in SubIds : UnknownUnsubscribe(c, s)) \/ MissHeartbeat(c)
    BY <1>2, <2>3, SimpleEventTypes DEF BadFrame, UnknownUnsubscribe, MissHeartbeat, Fail
  <2>4. CASE OnSubscribed(c) \/ OnUnsubscribed(c) \/ OnServerMessage(c)
    BY <1>3, <2>4 DEF OnSubscribed, OnUnsubscribed, OnServerMessage, Event
  <2>5. CASE OnError(c)
    <3>1. /\ inbox' = [inbox EXCEPT ![c] = Push(Pop(inbox[c]), Close)]
          /\ inbox \in [Clients -> ChannelOf(ClientEvent)] /\ Ready(inbox[c])
      BY <2>5 DEF OnError, Event, TypeOK, ProxyTypeOK
    <3>2. Push(Pop(inbox[c]), Close).open = inbox[c].open
      <4>1. Pop(inbox[c]) \in ChannelOf(ClientEvent) /\ Pop(inbox[c]).open = inbox[c].open
        BY <3>1, PopProperties
      <4> QED
        BY <4>1, PushProperties, SimpleEventTypes
    <3> QED
      BY <3>1, <3>2 DEF Goal
  <2> QED
    BY <1>5, <2>1, <2>2, <2>3, <2>4, <2>5 DEF SessionStep, HandleEvent
<1>6. ASSUME NEW c \in Clients, ClientFrame(c)
      PROVE  Goal
  <2>1. (\E e \in active[c] : ClientUnsubscribePanics(c, e)) \/ UNCHANGED inbox
    BY <1>6 DEF ClientFrame, ClientSubscribes, ClientSends, ClientUnsubscribes, proxyVars
  <2> QED
    BY <1>1, <1>4, <2>1 DEF ClientUnsubscribePanics, UnsubscribePanic, End
<1>7. ASSUME NEW l \in lookups, SubscribeFound(l)
      PROVE  Goal
  <2>1. /\ l.client \in Clients
        /\ Subscribed(l.dest, l.sub, Failed) \in ClientEvent
    BY DEF TypeOK, MapTypeOK, Lookup, Subscribed, ClientEvent, Failed
  <2> QED
    BY <1>1, <1>2, <1>7, <2>1 DEF SubscribeFound, Subscribe
<1>8. ASSUME NEW d \in Destinations, Backend(d)
      PROVE  Goal
  <2>1. CASE AddSubscription(d)
    <3> DEFINE a == First(actions[d])
    <3>1. a.client \in Clients /\ a.sub \in SubIds /\ Len(issued) + 1 \in Nat
      BY <2>1, HandlingTypes DEF AddSubscription, TypeOK, DestTypeOK
    <3>2. Subscribed(d, a.sub, Len(issued) + 1) \in ClientEvent
      BY <3>1, EventTypes DEF Subscribed, ClientEvent
    <3> QED
      BY <1>2, <2>1, <3>1, <3>2 DEF AddSubscription
  <2>2. CASE RemoveSubscription(d)
    <3> DEFINE a == First(actions[d])
    <3>1. a.client \in Clients /\ a.id \in Nat /\ a.id \in Ids
      BY <2>2, HandlingTypes DEF RemoveSubscription, TypeOK, DestTypeOK
    <3>2. issued[a.id].sub \in SubIds
      BY <3>1, IssuedTypes DEF TypeOK
    <3>3. Unsubscribed(issued[a.id].sub, a.id) \in ClientEvent
      BY <3>1, <3>2 DEF Unsubscribed, ClientEvent
    <3> QED
      BY <1>2, <2>2, <3>1, <3>3 DEF RemoveSubscription
  <2>3. ASSUME NEW i \in todo[d], SendTo(d, i)
        PROVE  Goal
    <3>1. i \in Ids
      BY DEF TypeOK, DestTypeOK
    <3>2. issued[i].client \in Clients /\ issued[i].sub \in SubIds /\ i \in Nat
      BY <3>1, IssuedTypes DEF TypeOK
    <3>3. First(actions[d]).message \in Messages
      BY <2>3, SendActionTypes DEF SendTo, SendInHand, TypeOK
    <3>4. ServerMessage(issued[i].sub, i, First(actions[d]).message) \in ClientEvent
      BY <3>2, <3>3 DEF ServerMessage, ClientEvent
    <3> QED
      BY <1>2, <2>3, <3>2, <3>4 DEF SendTo
  <2>4. CASE RemoveUnknownSubscription(d) \/ BeginSend(d) \/ EndSend(d) \/ CloseBackend(d)
    BY <1>1, <2>4
       DEF RemoveUnknownSubscription, BeginSend, EndSend, CloseBackend, proxyVars
  <2> QED
    BY <1>8, <2>1, <2>2, <2>3, <2>4 DEF Backend
<1>9. CASE \/ \E d \in Destinations : MapCreates(d) \/ CloseDestination(d)
           \/ UNCHANGED vars
  BY <1>1, <1>9 DEF MapCreates, CloseDestination, proxyVars, vars
<1>10. CASE DestinationStep
  <2>1. \/ \E d \in Destinations : MapCreates(d)
        \/ \E l \in lookups : SubscribeFound(l)
        \/ \E d \in Destinations : Backend(d)
    BY <1>10 DEF DestinationStep
  <2> QED
    BY <1>7, <1>8, <1>9, <2>1
<1>11. \/ \E c \in Clients : SessionStep(c) \/ ClientFrame(c)
       \/ DestinationStep
       \/ \E d \in Destinations : CloseDestination(d)
       \/ UNCHANGED vars
  BY DEF Next
<1> QED
  BY <1>5, <1>6, <1>9, <1>10, <1>11

\* Ids once drawn keep their subscription, and send gives up an id only after
\* it found its session gone.
LEMMA DeadStep ==
    ASSUME TypeOK, SendInHand, DeadAreGone, [Next]_vars
    PROVE  DeadAreGone'
<1>1. \A i \in Ids : issued'[i] = issued[i]
  <2>1. UNCHANGED issued \/ \E d \in Destinations : AddSubscription(d)
    BY DEF Next, SessionStep, ClientFrame, ClientSubscribes, ClientSends, ClientUnsubscribes,
           ClientUnsubscribePanics, DestinationStep, MapCreates, Create, SubscribeFound, Backend,
           RemoveSubscription, RemoveUnknownSubscription, BeginSend, SendTo, EndSend,
           CloseBackend, Stop, CloseDestination, vars, destVars
  <2>2. ASSUME NEW d \in Destinations, AddSubscription(d)
        PROVE  \A i \in Ids : issued'[i] = issued[i]
    <3>1. /\ issued \in Seq(Subscription)
          /\ \E s : issued' = Append(issued, s)
      BY <2>2 DEF AddSubscription, TypeOK, DestTypeOK
    <3> QED
      BY <3>1 DEF Ids
  <2> QED
    BY <2>1, <2>2
<1>2. \A d \in Destinations : \A i \in dead'[d] : i \in dead[d] \/ (i \in Ids /\ ~Alive(issued[i].client))
  <2>1. \/ UNCHANGED dead
        \/ \E d \in Destinations : EndSend(d) \/ \E i \in todo[d] : SendTo(d, i)
    BY DEF Next, SessionStep, ClientFrame, ClientSubscribes, ClientSends, ClientUnsubscribes,
           ClientUnsubscribePanics, DestinationStep, MapCreates, Create, SubscribeFound, Backend,
           AddSubscription, RemoveSubscription, RemoveUnknownSubscription, BeginSend,
           CloseBackend, Stop, CloseDestination, vars, destVars
  <2>2. ASSUME NEW d \in Destinations, EndSend(d)
        PROVE  \A x \in Destinations : dead'[x] \subseteq dead[x]
    BY <2>2 DEF EndSend, TypeOK, DestTypeOK
  <2>3. ASSUME NEW d \in Destinations, NEW i \in todo[d], SendTo(d, i)
        PROVE  \A x \in Destinations : \A j \in dead'[x] :
                 j \in dead[x] \/ (j \in Ids /\ ~Alive(issued[j].client))
    <3>1. i \in Ids
      BY DEF TypeOK, DestTypeOK
    <3> QED
      BY <2>3, <3>1 DEF SendTo, TypeOK, DestTypeOK
  <2> QED
    BY <2>1, <2>2, <2>3
<1> SUFFICES ASSUME NEW d \in Destinations, NEW i \in dead'[d]
             PROVE  ~inbox'[issued'[i].client].open
  BY DEF DeadAreGone, Alive
<1>3. i \in Ids /\ ~Alive(issued[i].client)
  BY <1>2 DEF DeadAreGone, TypeOK, DestTypeOK
<1>4. issued[i].client \in Clients
  BY <1>3, IssuedTypes DEF TypeOK
<1> QED
  BY <1>1, <1>3, <1>4, NeverReopened DEF Alive

-----------------------------------------------------------------------------
(* Tables and HashMaps match.                                              *)

\* The inductive invariant holds before anybody has connected ...
LEMMA InitIInv == Init => IInv
<1> SUFFICES ASSUME Init PROVE IInv
  OBVIOUS
<1>1. TypeOK /\ SendInHand
  BY InitTypes
<1>2. /\ \A c \in Clients : /\ inbox[c] = NewChannel /\ phase[c] = "connecting"
                            /\ active[c] = {}
      /\ \A d \in Destinations : actions[d] = Dropped /\ dead[d] = {}
  BY DEF Init, ProxyInit, DestInit, SessionInit
<1>3. /\ \A c \in Clients : Pending(inbox[c]) = {} /\ Alive(c)
      /\ \A d \in Destinations : Pending(actions[d]) = {}
  BY <1>2, EmptyChannels DEF Alive
<1>4. AnnouncedOnce
  BY <1>3 DEF AnnouncedOnce, AtMostOne, Pending
<1> QED
  BY <1>1, <1>2, <1>3, <1>4
     DEF IInv, DeadAreGone, Consistent, EventsConsistent, TablesConsistent, ActionsConsistent,
         Gone, ChannelClosedWithSession, EndedHaveNothing, ClosedAreEmpty,
         Announced, AnnouncedIsNew, TableMatchesBackend

\* ... and every step preserves it.
LEMMA NextIInv == IInv /\ [Next]_vars => IInv'
<1> SUFFICES ASSUME IInv, [Next]_vars PROVE IInv'
  OBVIOUS
<1>1. TypeOK /\ SendInHand /\ DeadAreGone /\ Core
  BY DEF IInv, Core
<1>2. TypeOK' /\ SendInHand' /\ DeadAreGone' /\ Core'
  BY <1>1, TypeStep, SendInHandStep, DeadStep, CoreStep
<1> QED
  BY <1>2 DEF IInv, Core

\* Ids, tables, channels and queues stay consistent with each other, for any
\* number of clients, destinations and ids (client.rs, inmemory.rs,
\* destinations.rs).
THEOREM Invariance == Spec => []IInv
BY InitIInv, NextIInv, PTL DEF Spec

\* What a session has in its table, its destination has in its HashMap, for
\* this client and under this id, unless the answer to an UNSUBSCRIBE is on
\* its way or the destination stopped; whether clients are careful or not.
THEOREM TablesMatch == Spec => []TableMatchesBackend
<1>1. IInv => TableMatchesBackend
  BY DEF IInv
<1> QED
  BY <1>1, Invariance, PTL

\* A session's channel is closed exactly when the session has ended, in every
\* way a session can end.
THEOREM ChannelsClose == Spec => []ChannelClosedWithSession
<1>1. IInv => ChannelClosedWithSession
  BY DEF IInv, Gone
<1> QED
  BY <1>1, Invariance, PTL

-----------------------------------------------------------------------------
(* Handles reach tasks.                                                    *)

\* perform_action never opens or closes a channel.
LEMMA PerformKeepsOpen ==
    ASSUME DestTypeOK, NEW d \in Destinations, NEW a \in DestinationAction,
           PerformAction(d, a)
    PROVE  \A x \in Destinations : actions'[x].open = actions[x].open
<1>1. /\ actions \in [Destinations -> ChannelOf(DestinationAction)]
      /\ actions' = [actions EXCEPT ![d] = Push(actions[d], a)]
  BY DEF DestTypeOK, PerformAction
<1>2. Push(actions[d], a).open = actions[d].open
  <2>1. actions[d] \in ChannelOf(DestinationAction)
    BY <1>1
  <2> QED
    BY <2>1, PushProperties
<1> QED
  BY <1>1, <1>2

\* A step that only calls a handle changes nothing about who is reached.
LEMMA CallKeepsReachable ==
    ASSUME DestTypeOK, Reachable, NEW d \in Destinations, NEW a \in DestinationAction,
           PerformAction(d, a), UNCHANGED <<backend, issued>>
    PROVE  Reachable'
<1>1. HandlesReachTasks'
  BY PerformKeepsOpen DEF Reachable, HandlesReachTasks
<1>2. IdsOfDestinations'
  BY DEF Reachable, IdsOfDestinations, Ids
<1> QED
  BY <1>1, <1>2 DEF Reachable

\* The channel of a destination is opened by create, and closed when its task
\* ends; ids are drawn by tasks that run.
LEMMA BackendKeepsReachable ==
    ASSUME DestTypeOK, SendInHand, Reachable, NEW d \in Destinations, Backend(d)
    PROVE  Reachable'
<1>1. \A i \in Ids : issued[i].dest \in Destinations
  BY IssuedTypes
<1>2. ASSUME Ready(actions[d]), Handled(d)
      PROVE  \A x \in Destinations : actions'[x].open = actions[x].open
  <2>1. /\ actions[d] \in ChannelOf(DestinationAction)
        /\ actions \in [Destinations -> ChannelOf(DestinationAction)]
        /\ actions' = [actions EXCEPT ![d] = Pop(actions[d])]
    BY <1>2 DEF DestTypeOK, Handled
  <2>2. Pop(actions[d]).open = actions[d].open
    BY <1>2, <2>1, PopProperties
  <2> QED
    BY <2>1, <2>2
<1>3. CASE AddSubscription(d)
  <2>1. Ready(actions[d]) /\ Handled(d) /\ UNCHANGED backend /\ backend[d] = "listening"
    BY <1>3 DEF AddSubscription, Handling
  <2>2. HandlesReachTasks'
    BY <1>2, <2>1 DEF Reachable, HandlesReachTasks
  <2>3. ASSUME NEW i \in Ids'
        PROVE  backend[issued'[i].dest] # "absent"
    <3> DEFINE s == [client |-> First(actions[d]).client, dest |-> d,
                     sub |-> First(actions[d]).sub]
    <3>1. /\ issued \in Seq(Subscription) /\ issued' = Append(issued, s)
          /\ Len(issued) \in Nat
      BY <1>3 DEF AddSubscription, DestTypeOK
    <3>2. s \in Subscription
      BY <1>3, HandlingTypes DEF AddSubscription, Subscription
    <3>3. CASE i \in Ids
      BY <3>1, <3>3 DEF Ids, Reachable, IdsOfDestinations
    <3>4. CASE i = Len(issued) + 1
      <4>1. issued'[i] = s
        BY <3>1, <3>2, <3>4
      <4> QED
        BY <2>1, <4>1
    <3>5. i \in Ids \/ i = Len(issued) + 1
      BY <3>1, <3>2 DEF Ids
    <3> QED
      BY <3>3, <3>4, <3>5
  <2> QED
    BY <2>1, <2>2, <2>3 DEF Reachable, IdsOfDestinations
<1>4. CASE RemoveSubscription(d)
  <2>1. Ready(actions[d]) /\ Handled(d) /\ UNCHANGED <<backend, issued>>
    BY <1>4 DEF RemoveSubscription, Handling
  <2> QED
    BY <1>2, <2>1 DEF Reachable, HandlesReachTasks, IdsOfDestinations, Ids
<1>5. CASE RemoveUnknownSubscription(d) \/ CloseBackend(d)
  <2>1. PICK how \in {"panicked", "closed"} : Stop(d, how)
    BY <1>5 DEF RemoveUnknownSubscription, CloseBackend
  <2>2. HandlesReachTasks'
    BY <2>1, EmptyChannels DEF Stop, Reachable, HandlesReachTasks, DestTypeOK
  <2>3. IdsOfDestinations'
    BY <1>1, <2>1 DEF Stop, Reachable, IdsOfDestinations, DestTypeOK, Ids
  <2> QED
    BY <2>2, <2>3 DEF Reachable
<1>6. CASE BeginSend(d)
  <2>1. /\ backend' = [backend EXCEPT ![d] = "sending"] /\ backend[d] = "listening"
        /\ UNCHANGED <<actions, issued>>
    BY <1>6 DEF BeginSend, Handling
  <2> QED
    BY <1>1, <2>1 DEF Reachable, HandlesReachTasks, IdsOfDestinations, DestTypeOK, Ids
<1>7. CASE \E i \in todo[d] : SendTo(d, i)
  BY <1>7 DEF SendTo, Reachable, HandlesReachTasks, IdsOfDestinations, Ids
<1>8. CASE EndSend(d)
  <2>1. /\ backend' = [backend EXCEPT ![d] = "listening"] /\ backend[d] = "sending"
        /\ UNCHANGED issued /\ Ready(actions[d]) /\ Handled(d)
    BY <1>8 DEF EndSend, SendInHand
  <2>2. HandlesReachTasks'
    BY <1>2, <2>1 DEF Reachable, HandlesReachTasks, DestTypeOK
  <2>3. IdsOfDestinations'
    BY <1>1, <2>1 DEF Reachable, IdsOfDestinations, DestTypeOK, Ids
  <2> QED
    BY <2>2, <2>3 DEF Reachable
<1> QED
  BY <1>3, <1>4, <1>5, <1>6, <1>7, <1>8 DEF Backend

\* Every step keeps handles and tasks together.
LEMMA ReachableStep ==
    ASSUME TypeOK, SendInHand, Reachable, [Next]_vars
    PROVE  Reachable'
<1> USE DEF TypeOK
<1>1. ASSUME UNCHANGED <<backend, actions, issued>>
      PROVE  Reachable'
  BY <1>1 DEF Reachable, HandlesReachTasks, IdsOfDestinations, Ids
<1>2. ASSUME NEW c \in Clients, ClientFrame(c)
      PROVE  Reachable'
  <2>1. ASSUME NEW d \in Destinations, NEW m \in Messages, ClientSends(c, d, m)
        PROVE  Reachable'
    <3>1. SendAction(m) \in DestinationAction
      BY DEF SendAction, DestinationAction
    <3> QED
      BY <1>1, <2>1, <3>1, CallKeepsReachable DEF ClientSends, SendIfPresent, Send
  <2>2. ASSUME NEW e \in active[c], ClientUnsubscribes(c, e)
        PROVE  Reachable'
    <3>1. e.dest \in Destinations /\ UnsubscribeAction(c, e.id) \in DestinationAction
      BY DEF SessionTypeOK, Entry, UnsubscribeAction, DestinationAction
    <3> QED
      BY <1>1, <2>2, <3>1, CallKeepsReachable
         DEF ClientUnsubscribes, UnsubscribeIfPresent, Unsubscribe
  <2> QED
    BY <1>1, <1>2, <2>1, <2>2
       DEF ClientFrame, ClientSubscribes, ClientUnsubscribePanics, destVars
<1>3. ASSUME NEW l \in lookups, SubscribeFound(l)
      PROVE  Reachable'
  <2>1. l.dest \in Destinations /\ SubscribeAction(l.client, l.sub) \in DestinationAction
    BY DEF MapTypeOK, Lookup, SubscribeAction, DestinationAction
  <2> QED
    BY <1>3, <2>1, CallKeepsReachable DEF SubscribeFound, Subscribe
<1>4. ASSUME NEW d \in Destinations, MapCreates(d)
      PROVE  Reachable'
  <2>1. HandlesReachTasks'
    BY <1>4, EmptyChannels DEF MapCreates, Create, Reachable, HandlesReachTasks, DestTypeOK
  <2>2. \A i \in Ids : issued[i].dest \in Destinations
    BY IssuedTypes
  <2>3. IdsOfDestinations'
    BY <1>4, <2>2 DEF MapCreates, Create, Reachable, IdsOfDestinations, DestTypeOK, Ids
  <2> QED
    BY <2>1, <2>3 DEF Reachable
<1>5. ASSUME NEW d \in Destinations, CloseDestination(d)
      PROVE  Reachable'
  BY <1>5, CloseActionType, CallKeepsReachable DEF CloseDestination, CloseHandle
<1>6. ASSUME NEW d \in Destinations, Backend(d)
      PROVE  Reachable'
  BY <1>6, BackendKeepsReachable
<1> QED
  BY <1>1, <1>2, <1>3, <1>4, <1>5, <1>6 DEF Next, DestinationStep, vars, destVars

\* Before there is any destination, nobody is reached and no id is drawn.
LEMMA InitReachable == Init => Reachable
BY EmptyChannels DEF Init, DestInit, Reachable, HandlesReachTasks, IdsOfDestinations, Ids

-----------------------------------------------------------------------------
(* Subscribers are heard, and lost only for a cause.                       *)

\* Handles and tasks stay together, for any number of clients, destinations
\* and ids (inmemory.rs, create and listen_on).
THEOREM Reaching == Spec => []Reachable
<1>1. TypeOK /\ SendInHand /\ Reachable /\ [Next]_vars => Reachable'
  BY ReachableStep
<1> QED
  BY <1>1, InitReachable, Typing, PTL DEF Spec

\* The destination of a table entry was made, and runs unless it stopped.
LEMMA EntriesAreReached ==
    ASSUME IInv, Reachable, NEW c \in Clients, NEW e \in active[c], ~Stopped(e.dest)
    PROVE  backend[e.dest] # "absent" /\ actions[e.dest].open
<1>1. /\ e.dest \in Destinations
      /\ backend \in [Destinations -> BackendState]
  BY DEF IInv, TypeOK, SessionTypeOK, DestTypeOK, Entry
<1>2. e.id \in Ids /\ issued[e.id].dest = e.dest
  <2>1. TablesConsistent
    BY DEF IInv, Consistent
  <2>2. e.id \in Ids /\ issued[e.id] = [client |-> c, dest |-> e.dest, sub |-> e.sub]
    BY <2>1 DEF TablesConsistent
  <2> QED
    BY <2>2
<1>3. backend[e.dest] # "absent"
  BY <1>2 DEF Reachable, IdsOfDestinations
<1>4. backend[e.dest] \in {"listening", "sending"}
  BY <1>1, <1>3 DEF Stopped, BackendState
<1> QED
  BY <1>1, <1>3, <1>4 DEF Reachable, HandlesReachTasks

\* A client that is subscribed to a destination does not lose its SEND in the
\* lookup of destinations.rs:64: the destination was made, and its queue takes
\* the message, unless it stopped.
THEOREM Hearing == Spec => SubscriberIsHeard
<1>1. ASSUME IInv, Reachable,
             NEW c \in Clients, NEW e \in active[c], NEW m \in Messages,
             ClientSends(c, e.dest, m), ~Stopped(e.dest)
      PROVE  actions'[e.dest].queue = Append(actions[e.dest].queue, SendAction(m))
  <2>1. backend[e.dest] # "absent" /\ actions[e.dest].open
    BY <1>1, EntriesAreReached
  <2>2. actions' = [actions EXCEPT ![e.dest] = Push(actions[e.dest], SendAction(m))]
    BY <1>1, <2>1 DEF ClientSends, SendIfPresent, Send, PerformAction
  <2>3. /\ e.dest \in Destinations
        /\ actions \in [Destinations -> ChannelOf(DestinationAction)]
    BY <1>1 DEF IInv, TypeOK, SessionTypeOK, DestTypeOK, Entry
  <2>4. actions[e.dest] \in ChannelOf(DestinationAction)
    BY <2>3
  <2> QED
    BY <2>1, <2>2, <2>3, <2>4 DEF Push, ChannelOf
<1>2. IInv /\ Reachable =>
        [\A c \in Clients : \A e \in active[c] : \A m \in Messages :
            ClientSends(c, e.dest, m) /\ ~Stopped(e.dest) =>
              actions'[e.dest].queue = Append(actions[e.dest].queue, SendAction(m))]_vars
  BY <1>1
<1> QED
  BY <1>2, Invariance, Reaching, PTL DEF SubscriberIsHeard

\* Whatever takes a subscription out of a HashMap has one of three causes.
LEMMA BackendLosesForCause ==
    ASSUME IInv, NEW d \in Destinations, Backend(d),
           NEW x \in Destinations, NEW i \in subscriptions[x], i \notin subscriptions'[x]
    PROVE  \/ ~Alive(issued[i].client)
           \/ First(actions[x]) = UnsubscribeAction(issued[i].client, i)
           \/ Stopped(x)'
<1>1. DestTypeOK /\ ActionsConsistent /\ DeadAreGone
  BY DEF IInv, TypeOK, Consistent
<1>2. CASE RemoveSubscription(d)
  <2> DEFINE a == First(actions[d])
  <2>1. x = d /\ a.id = i
    BY <1>1, <1>2 DEF RemoveSubscription, DestTypeOK
  <2>2. a \in DestinationAction /\ a \in Pending(actions[d]) /\ a.type = "Unsubscribe"
    BY <1>1, <1>2, HandlingTypes DEF RemoveSubscription
  <2>3. issued[i].client = a.client
    BY <1>1, <2>1, <2>2 DEF ActionsConsistent
  <2>4. a = UnsubscribeAction(a.client, a.id)
    BY <2>2 DEF DestinationAction, UnsubscribeAction, CloseAction
  <2> QED
    BY <2>1, <2>3, <2>4
<1>3. CASE EndSend(d)
  BY <1>1, <1>3 DEF EndSend, DeadAreGone, DestTypeOK
<1>4. CASE RemoveUnknownSubscription(d) \/ CloseBackend(d)
  BY <1>1, <1>4 DEF RemoveUnknownSubscription, CloseBackend, Stop, Stopped, DestTypeOK
<1>5. CASE \/ AddSubscription(d) \/ BeginSend(d) \/ \E k \in todo[d] : SendTo(d, k)
  BY <1>1, <1>5 DEF AddSubscription, BeginSend, SendTo, DestTypeOK
<1> QED
  BY <1>2, <1>3, <1>4, <1>5 DEF Backend

\* In the whole system, too, a destination loses a subscription only because
\* its own client unsubscribed it, because its session is gone, or because the
\* destination stopped: the pruning after the loop of send takes no living one.
THEOREM LosingForCause == Spec => LostOnlyForCause
<1>1. ASSUME IInv, [Next]_vars,
             NEW d \in Destinations, NEW i \in subscriptions[d] \ subscriptions'[d]
      PROVE  \/ ~Alive(issued[i].client)
             \/ First(actions[d]) = UnsubscribeAction(issued[i].client, i)
             \/ Stopped(d)'
  <2>1. \/ UNCHANGED subscriptions
        \/ \E x \in Destinations : Backend(x)
    BY <1>1 DEF Next, SessionStep, ClientFrame, ClientSubscribes, ClientSends,
                ClientUnsubscribes, ClientUnsubscribePanics, DestinationStep, MapCreates,
                Create, SubscribeFound, CloseDestination, vars, destVars
  <2> QED
    BY <1>1, <2>1, BackendLosesForCause
<1>2. IInv /\ [Next]_vars =>
        [\A d \in Destinations : \A i \in subscriptions[d] \ subscriptions'[d] :
            \/ ~Alive(issued[i].client)
            \/ First(actions[d]) = UnsubscribeAction(issued[i].client, i)
            \/ Stopped(d)']_<<destVars, proxyVars>>
  BY <1>1
<1> QED
  BY <1>2, Invariance, PTL DEF Spec, LostOnlyForCause

-----------------------------------------------------------------------------
(* An ERROR, and the Close that follows it.                                *)

\* ERROR is the answer to no first message that connects, and is followed by a
\* Close that waits until the session ends.
ClosingInv ==
    \A c \in Clients :
        /\ phase[c] = "connecting" => ~SentError(c)
        /\ phase[c] = "alive" /\ SentError(c) => Close \in Pending(inbox[c])

\* Nothing is taken from the channels.
InboxesGrow == \A c \in Clients : Pending(inbox[c]) \subseteq Pending(inbox'[c])

\* Session x is left as it was by a step of another.
LeftAlone(x) == phase'[x] = phase[x] /\ out'[x] = out[x] /\ inbox'[x] = inbox[x]

-----------------------------------------------------------------------------
(* Frames and events.                                                      *)

\* Only an ERROR makes an ERROR, and only for the client it was written to.
LEMMA EmitFrame ==
    ASSUME SessionTypeOK, NEW c \in Clients, NEW f \in Frame, Emit(c, f)
    PROVE  \A x \in Clients : /\ x # c => out'[x] = out[x]
                              /\ f # ERROR => (SentError(x)' <=> SentError(x))
<1>1. /\ out \in [Clients -> Seq(Frame)]
      /\ out' = [out EXCEPT ![c] = Append(out[c], f)]
  BY DEF SessionTypeOK, Emit
<1>2. ASSUME NEW x \in Clients, x # c
      PROVE  out'[x] = out[x]
  BY <1>1, <1>2
<1>3. ASSUME f # ERROR
      PROVE  SentError(c)' <=> SentError(c)
  <2>1. /\ out[c] \in Seq(Frame) /\ out'[c] = Append(out[c], f)
    BY <1>1
  <2>2. /\ DOMAIN out[c] = 1 .. Len(out[c]) /\ DOMAIN out'[c] = 1 .. Len(out[c]) + 1
        /\ Len(out[c]) \in Nat
        /\ \A k \in 1 .. Len(out[c]) : out'[c][k] = out[c][k]
        /\ out'[c][Len(out[c]) + 1] = f
    BY <2>1
  <2> QED
    BY <1>3, <2>2 DEF SentError
<1> QED
  BY <1>2, <1>3 DEF SentError

\* A step that writes nothing and takes no event keeps the Close in its place.
LEMMA GrowingStep ==
    ASSUME ClosingInv, InboxesGrow, UNCHANGED <<phase, out>>
    PROVE  ClosingInv'
BY DEF ClosingInv, InboxesGrow, SentError

\* A step of one session leaves the others to themselves.
LEMMA OwnStep ==
    ASSUME ClosingInv, NEW c \in Clients, \A x \in Clients \ {c} : LeftAlone(x),
           /\ phase'[c] = "connecting" => ~SentError(c)'
           /\ phase'[c] = "alive" /\ SentError(c)' => Close \in Pending(inbox'[c])
    PROVE  ClosingInv'
BY DEF ClosingInv, LeftAlone, SentError

\* What is sent to a session is added to what it has.
LEMMA SendEventGrows ==
    ASSUME TypeOK, NEW c \in Clients, NEW e \in ClientEvent, SendEvent(c, e)
    PROVE  InboxesGrow
BY SendEventEffect DEF TypeOK, InboxesGrow

\* A session that ends is done with it.
LEMMA EndCloses ==
    ASSUME TypeOK, ClosingInv, NEW c \in Clients,
           NEW how \in {"lingering", "closed", "panicked"}, End(c, how),
           UNCHANGED out \/ \E f \in Frame : Emit(c, f)
    PROVE  ClosingInv'
<1>1. phase'[c] = how /\ \A x \in Clients \ {c} : phase'[x] = phase[x]
  BY DEF End, TypeOK, SessionTypeOK
<1>2. \A x \in Clients \ {c} : inbox'[x] = inbox[x]
  BY DropInboxEffect DEF End, TypeOK
<1>3. \A x \in Clients \ {c} : out'[x] = out[x]
  BY EmitFrame DEF TypeOK
<1> QED
  BY <1>1, <1>2, <1>3, OwnStep DEF LeftAlone

\* error(): the channel of a session that lives takes the Close.
LEMMA FailCloses ==
    ASSUME IInv, ClosingInv, NEW c \in Clients, phase[c] = "alive", Fail(c), UNCHANGED phase
    PROVE  ClosingInv'
<1>1. TypeOK /\ Alive(c)
  BY DEF IInv, Gone, ChannelClosedWithSession
<1>2. /\ Close \in Pending(inbox'[c])
      /\ \A x \in Clients \ {c} : inbox'[x] = inbox[x]
  BY <1>1, SimpleEventTypes, SendEventEffect DEF Fail, TypeOK
<1>3. \A x \in Clients \ {c} : out'[x] = out[x]
  BY <1>1, SimpleFrameTypes, EmitFrame DEF Fail, TypeOK
<1> QED
  BY <1>2, <1>3, OwnStep DEF LeftAlone

\* An event that is not the Close leaves it where it is.
LEMMA TakenKeepsClose ==
    ASSUME TypeOK, ClosingInv, NEW c \in Clients, Ready(inbox[c]), NextEvent(c) # Close,
           TakeEvent(c), UNCHANGED phase,
           UNCHANGED out \/ \E f \in Frame \ {ERROR} : Emit(c, f)
    PROVE  ClosingInv'
<1>1. /\ Pending(inbox[c]) \subseteq Pending(inbox'[c]) \cup {NextEvent(c)}
      /\ \A x \in Clients \ {c} : inbox'[x] = inbox[x]
  BY TakeEventEffect DEF TypeOK
<1>2. /\ \A x \in Clients \ {c} : out'[x] = out[x]
      /\ SentError(c)' <=> SentError(c)
  BY EmitFrame DEF TypeOK, SentError
<1>3. /\ phase'[c] = "connecting" => ~SentError(c)'
      /\ phase'[c] = "alive" /\ SentError(c)' => Close \in Pending(inbox'[c])
  BY <1>1, <1>2 DEF ClosingInv
<1> QED
  BY <1>1, <1>2, <1>3, OwnStep DEF LeftAlone

-----------------------------------------------------------------------------
(* Sessions keep their Close.                                              *)

\* Every step of a session.
LEMMA SessionStepCloses ==
    ASSUME IInv, ClosingInv, NEW c \in Clients, SessionStep(c)
    PROVE  ClosingInv'
<1>1. TypeOK
  BY DEF IInv
<1>2. CONNECTED # ERROR /\ HEARTBEAT # ERROR
  BY DEF CONNECTED, HEARTBEAT, ERROR
<1>3. CASE Connect(c)
  <2>1. /\ phase[c] = "connecting" /\ UNCHANGED inbox
        /\ \A x \in Clients \ {c} : phase'[x] = phase[x]
    BY <1>1, <1>3 DEF Connect, TypeOK, SessionTypeOK
  <2>2. /\ \A x \in Clients \ {c} : out'[x] = out[x]
        /\ SentError(c)' <=> SentError(c)
    BY <1>1, <1>2, <1>3, SimpleFrameTypes, EmitFrame DEF Connect, TypeOK
  <2>3. ~SentError(c)'
    BY <2>1, <2>2 DEF ClosingInv
  <2> QED
    BY <2>1, <2>2, <2>3, OwnStep DEF LeftAlone
<1>4. CASE Reject(c)
  BY <1>1, <1>4, SimpleFrameTypes, EndCloses DEF Reject
<1>5. CASE BadFrame(c) \/ \E s \in SubIds : UnknownUnsubscribe(c, s)
  <2>1. phase[c] = "alive" /\ Fail(c) /\ UNCHANGED phase
    BY <1>5 DEF BadFrame, UnknownUnsubscribe, Reads
  <2> QED
    BY <2>1, FailCloses
<1>6. CASE Disconnect(c) \/ UnhandledFrame(c) \/ EndOfStream(c) \/ SinkFails(c)
  <2>1. UNCHANGED out
    BY <1>6 DEF Disconnect, UnhandledFrame, EndOfStream, SinkFails
  <2>2. PICK how \in {"lingering", "closed", "panicked"} : End(c, how)
    BY <1>6 DEF Disconnect, UnhandledFrame, EndOfStream, SinkFails
  <2> QED
    BY <1>1, <2>1, <2>2, EndCloses
<1>7. CASE OnSubscribed(c) \/ OnUnsubscribed(c)
  <2>1. /\ Ready(inbox[c]) /\ TakeEvent(c) /\ UNCHANGED <<phase, out>>
        /\ NextEvent(c).type \in {"Subscribed", "Unsubscribed"}
    BY <1>7 DEF OnSubscribed, OnUnsubscribed, Event
  <2>2. NextEvent(c) # Close
    BY <2>1 DEF Close
  <2> QED
    BY <1>1, <2>1, <2>2, TakenKeepsClose
<1>8. CASE OnServerMessage(c)
  <2>1. /\ Ready(inbox[c]) /\ TakeEvent(c) /\ UNCHANGED phase
        /\ NextEvent(c).type = "ServerMessage"
        /\ Emit(c, MESSAGE(NextEvent(c).sub, NextEvent(c).message))
    BY <1>8 DEF OnServerMessage, Event
  <2>2. NextEvent(c) \in ClientEvent /\ NextEvent(c) # Close
    BY <1>1, <2>1, TakeEventEffect DEF TypeOK, Close
  <2>3. MESSAGE(NextEvent(c).sub, NextEvent(c).message) \in Frame \ {ERROR}
    <3>1. MESSAGE(NextEvent(c).sub, NextEvent(c).message) \in Frame
      BY <2>1, <2>2, EventFields, FrameTypes
    <3> QED
      BY <3>1 DEF MESSAGE, ERROR
  <2> QED
    BY <1>1, <2>1, <2>2, <2>3, TakenKeepsClose
<1>9. CASE OnError(c)
  <2>1. /\ Ready(inbox[c]) /\ phase[c] = "alive" /\ UNCHANGED phase
        /\ inbox' = [inbox EXCEPT ![c] = Push(Pop(inbox[c]), Close)]
    BY <1>9 DEF OnError, Event
  <2>2. inbox[c] \in ChannelOf(ClientEvent) /\ inbox[c].open
    BY <1>1, <2>1 DEF IInv, Gone, ChannelClosedWithSession, Alive, TypeOK, ProxyTypeOK
  <2>3. Pop(inbox[c]) \in ChannelOf(ClientEvent) /\ Pop(inbox[c]).open
    BY <2>1, <2>2, PopProperties
  <2>4. Close \in Pending(Push(Pop(inbox[c]), Close))
    BY <2>3, PushProperties, SimpleEventTypes
  <2>5. /\ Close \in Pending(inbox'[c])
        /\ \A x \in Clients \ {c} : inbox'[x] = inbox[x]
    BY <1>1, <2>1, <2>4 DEF TypeOK, ProxyTypeOK
  <2>6. \A x \in Clients \ {c} : out'[x] = out[x]
    BY <1>1, <1>9, SimpleFrameTypes, EmitFrame DEF OnError, TypeOK
  <2> QED
    BY <2>1, <2>5, <2>6, OwnStep DEF LeftAlone
<1>10. CASE OnClose(c)
  BY <1>1, <1>10, EndCloses DEF OnClose
<1>11. CASE Heartbeat(c)
  <2>1. /\ \A x \in Clients \ {c} : out'[x] = out[x]
        /\ SentError(c)' <=> SentError(c)
    BY <1>1, <1>2, <1>11, SimpleFrameTypes, EmitFrame DEF Heartbeat, TypeOK
  <2> QED
    BY <1>11, <2>1, OwnStep DEF Heartbeat, LeftAlone, ClosingInv
<1>12. CASE MissHeartbeat(c)
  BY <1>1, <1>12, SimpleEventTypes, SendEventGrows, GrowingStep DEF MissHeartbeat
<1>13. CASE LingerEnds(c)
  BY <1>1, <1>13, OwnStep DEF LingerEnds, LeftAlone, TypeOK, SessionTypeOK
<1> QED
  BY <1>3, <1>4, <1>5, <1>6, <1>7, <1>8, <1>9, <1>10, <1>11, <1>12, <1>13
     DEF SessionStep, HandleEvent

\* Destinations, and the lookups, only add to channels.
LEMMA DestinationsOnlyAdd ==
    ASSUME TypeOK, SendInHand, DestinationStep
    PROVE  InboxesGrow
<1>1. ASSUME UNCHANGED inbox
      PROVE  InboxesGrow
  BY <1>1 DEF InboxesGrow
<1>2. ASSUME NEW l \in lookups, SubscribeFound(l)
      PROVE  InboxesGrow
  <2>1. /\ l.client \in Clients
        /\ Subscribed(l.dest, l.sub, Failed) \in ClientEvent
    BY DEF TypeOK, MapTypeOK, Lookup, Subscribed, ClientEvent, Failed
  <2> QED
    BY <1>1, <1>2, <2>1, SendEventGrows DEF SubscribeFound, Subscribe
<1>3. ASSUME NEW d \in Destinations, AddSubscription(d)
      PROVE  InboxesGrow
  <2> DEFINE a == First(actions[d])
  <2>1. a.client \in Clients /\ a.sub \in SubIds /\ Len(issued) + 1 \in Nat
    BY <1>3, HandlingTypes DEF AddSubscription, TypeOK, DestTypeOK
  <2>2. Subscribed(d, a.sub, Len(issued) + 1) \in ClientEvent
    BY <2>1, EventTypes DEF Subscribed, ClientEvent
  <2> QED
    BY <1>3, <2>1, <2>2, SendEventGrows DEF AddSubscription
<1>4. ASSUME NEW d \in Destinations, RemoveSubscription(d)
      PROVE  InboxesGrow
  <2> DEFINE a == First(actions[d])
  <2>1. a.client \in Clients /\ a.id \in Nat /\ a.id \in Ids
    BY <1>4, HandlingTypes DEF RemoveSubscription, TypeOK, DestTypeOK
  <2>2. issued[a.id].sub \in SubIds
    BY <2>1, IssuedTypes DEF TypeOK
  <2>3. Unsubscribed(issued[a.id].sub, a.id) \in ClientEvent
    BY <2>1, <2>2 DEF Unsubscribed, ClientEvent
  <2> QED
    BY <1>4, <2>1, <2>3, SendEventGrows DEF RemoveSubscription
<1>5. ASSUME NEW d \in Destinations, NEW i \in todo[d], SendTo(d, i)
      PROVE  InboxesGrow
  <2>1. i \in Ids
    BY DEF TypeOK, DestTypeOK
  <2>2. issued[i].client \in Clients /\ issued[i].sub \in SubIds /\ i \in Nat
    BY <2>1, IssuedTypes DEF TypeOK
  <2>3. First(actions[d]).message \in Messages
    BY <1>5, SendActionTypes DEF SendTo, SendInHand, TypeOK
  <2>4. ServerMessage(issued[i].sub, i, First(actions[d]).message) \in ClientEvent
    BY <2>2, <2>3 DEF ServerMessage, ClientEvent
  <2> QED
    BY <1>5, <2>2, <2>4, SendEventGrows DEF SendTo
<1>6. ASSUME NEW d \in Destinations, Backend(d)
      PROVE  InboxesGrow
  BY <1>1, <1>3, <1>4, <1>5, <1>6
     DEF Backend, RemoveUnknownSubscription, BeginSend, EndSend, CloseBackend, proxyVars
<1> QED
  BY <1>1, <1>2, <1>6 DEF DestinationStep, MapCreates, proxyVars

\* Every step keeps the Close where it is needed.
LEMMA ClosingStep ==
    ASSUME IInv, ClosingInv, [Next]_vars
    PROVE  ClosingInv'
<1>1. TypeOK /\ SendInHand
  BY DEF IInv
<1>2. ASSUME UNCHANGED <<phase, out, inbox>>
      PROVE  ClosingInv'
  BY <1>2, GrowingStep DEF InboxesGrow
<1>3. ASSUME NEW c \in Clients, ClientFrame(c)
      PROVE  ClosingInv'
  <2>1. ASSUME NEW e \in active[c], ClientUnsubscribePanics(c, e)
        PROVE  ClosingInv'
    BY <1>1, <2>1, EndCloses DEF ClientUnsubscribePanics, UnsubscribePanic
  <2> QED
    BY <1>2, <1>3, <2>1
       DEF ClientFrame, ClientSubscribes, ClientSends, ClientUnsubscribes,
           SubscribeFrame, SendFrame, UnsubscribeFrame, proxyVars
<1>4. CASE DestinationStep /\ UNCHANGED sessionVars
  BY <1>1, <1>4, DestinationsOnlyAdd, GrowingStep DEF sessionVars
<1>5. CASE (\E d \in Destinations : CloseDestination(d)) \/ UNCHANGED vars
  BY <1>2, <1>5 DEF CloseDestination, vars, proxyVars, sessionVars
<1> QED
  BY <1>3, <1>4, <1>5, SessionStepCloses DEF Next

\* A session of the composed system that has sent ERROR and goes on has a Close
\* in its channel: whatever destinations, timers and other sessions do, it is
\* going to end (client.rs:328-334), for any number of clients, destinations
\* and ids.
THEOREM ErrorsClose == Spec => []ErrorMeansClosing
<1>1. Init => ClosingInv
  BY DEF Init, SessionInit, ClosingInv, SentError
<1>2. IInv /\ ClosingInv /\ [Next]_vars => ClosingInv'
  BY ClosingStep
<1>3. ClosingInv => ErrorMeansClosing
  BY DEF ClosingInv, ErrorMeansClosing
<1> QED
  BY <1>1, <1>2, <1>3, Invariance, PTL DEF Spec

-----------------------------------------------------------------------------
(* Careful clients.                                                        *)

\* A careful client uses an id once.  From the SUBSCRIBE on, that use is in one
\* place only: a lookup, the queue of one destination, or one uuid.
Looking(c, s) == {l \in lookups : l.client = c /\ l.sub = s}
Queued(c, s) == {d \in Destinations : SubscribeAction(c, s) \in Pending(actions[d])}
Drawn(c, s) == {i \in Ids : issued[i].client = c /\ issued[i].sub = s}

Single(S) == \A x, y \in S : x = y

UsedOnce(c, s) ==
    /\ Single(Looking(c, s)) /\ Single(Queued(c, s)) /\ Single(Drawn(c, s))
    /\ \A d \in Destinations : AtMostOne(actions[d], {SubscribeAction(c, s)})
    /\ Looking(c, s) # {} => Queued(c, s) = {} /\ Drawn(c, s) = {}
    /\ Queued(c, s) # {} => Drawn(c, s) = {}

\* Before it has connected, a client has used no id.
Uses == \A c \in Clients, s \in SubIds :
    /\ UsedOnce(c, s)
    /\ phase[c] = "connecting" => ~Used(c, s)

\* What an Unsubscribed event says is true, and a uuid is with the destination
\* that drew it.
AnswersAreTrue ==
    \A c \in Clients : \A e \in Pending(inbox[c]) :
        e.type = "Unsubscribed" => \A d \in Destinations : e.result \notin subscriptions[d]
AtHome == \A d \in Destinations : \A i \in subscriptions[d] : issued[i].dest = d

Filed == AnswersAreTrue /\ AtHome /\ NoOrphans

CarefulInv == Uses /\ Filed

-----------------------------------------------------------------------------
(* One use of every id.                                                    *)

\* A queue that gets no Subscribe, and keeps those it has in their places or
\* loses them.
NothingQueued ==
    \A d \in Destinations :
        /\ \A a \in Pending(actions'[d]) : a.type = "Subscribe" => a \in Pending(actions[d])
        /\ \A c \in Clients, s \in SubIds :
             AtMostOne(actions[d], {SubscribeAction(c, s)})
               => AtMostOne(actions'[d], {SubscribeAction(c, s)})

NothingUsed ==
    /\ lookups' \subseteq lookups /\ UNCHANGED issued
    /\ NothingQueued
    /\ \A c \in Clients : phase'[c] = "connecting" => phase[c] = "connecting"

\* The handle queues something that is no Subscribe.
LEMMA QueueOther ==
    ASSUME TypeOK, NEW d \in Destinations, NEW a \in DestinationAction, a.type # "Subscribe",
           PerformAction(d, a)
    PROVE  NothingQueued
<1>1. /\ \A x \in Destinations : /\ actions[x] \in ChannelOf(DestinationAction)
                                 /\ x # d => actions'[x] = actions[x]
      /\ actions'[d] = Push(actions[d], a)
  BY DEF PerformAction, TypeOK, DestTypeOK
<1>2. ASSUME NEW c \in Clients, NEW s \in SubIds
      PROVE  a \notin {SubscribeAction(c, s)}
  BY DEF SubscribeAction
<1>3. Pending(actions'[d]) \subseteq Pending(actions[d]) \cup {a}
  BY <1>1, PushProperties
<1>4. ASSUME NEW c \in Clients, NEW s \in SubIds, AtMostOne(actions[d], {SubscribeAction(c, s)})
      PROVE  AtMostOne(actions'[d], {SubscribeAction(c, s)})
  BY <1>1, <1>2, <1>4, PushAtMostOne
<1> QED
  BY <1>1, <1>3, <1>4 DEF NothingQueued

\* The task takes the action in hand from its queue.
LEMMA HandledQueues ==
    ASSUME TypeOK, NEW d \in Destinations, Ready(actions[d]), Handled(d)
    PROVE  NothingQueued
<1>1. /\ \A x \in Destinations : /\ actions[x] \in ChannelOf(DestinationAction)
                                 /\ x # d => actions'[x] = actions[x]
      /\ actions'[d] = Pop(actions[d])
  BY DEF Handled, TypeOK, DestTypeOK
<1>2. Pending(actions'[d]) \subseteq Pending(actions[d])
  BY <1>1, PopProperties
<1>3. ASSUME NEW c \in Clients, NEW s \in SubIds, AtMostOne(actions[d], {SubscribeAction(c, s)})
      PROVE  AtMostOne(actions'[d], {SubscribeAction(c, s)})
  BY <1>1, <1>3, PopAtMostOne
<1> QED
  BY <1>1, <1>2, <1>3 DEF NothingQueued

\* A queue is made, or dropped with its receiver.
LEMMA EmptiedQueues ==
    ASSUME TypeOK, NEW d \in Destinations, NEW ch \in {NewChannel, Dropped},
           actions' = [actions EXCEPT ![d] = ch]
    PROVE  NothingQueued
<1>1. /\ \A x \in Destinations : x # d => actions'[x] = actions[x]
      /\ actions'[d] = ch
  BY DEF TypeOK, DestTypeOK
<1>2. Pending(ch) = {} /\ \A Kind : AtMostOne(ch, Kind)
  BY DEF NewChannel, Dropped, Pending, AtMostOne
<1> QED
  BY <1>1, <1>2 DEF NothingQueued

\* Where nothing is used, nothing is used twice.
LEMMA NothingUsedStep ==
    ASSUME Uses, NothingUsed
    PROVE  Uses'
<1> SUFFICES ASSUME NEW c \in Clients, NEW s \in SubIds
             PROVE  UsedOnce(c, s)' /\ (phase'[c] = "connecting" => ~Used(c, s)')
  BY DEF Uses
<1>1. UsedOnce(c, s) /\ (phase[c] = "connecting" => ~Used(c, s))
  BY DEF Uses
<1>2. Looking(c, s)' \subseteq Looking(c, s) /\ Drawn(c, s)' = Drawn(c, s)
  BY DEF NothingUsed, Looking, Drawn, Ids
<1>3. Queued(c, s)' \subseteq Queued(c, s)
  BY DEF NothingUsed, NothingQueued, Queued, SubscribeAction
<1>4. \A d \in Destinations : AtMostOne(actions'[d], {SubscribeAction(c, s)})
  BY <1>1 DEF NothingUsed, NothingQueued, UsedOnce
<1>5. UsedOnce(c, s)'
  BY <1>1, <1>2, <1>3, <1>4 DEF UsedOnce, Single
<1>6. Used(c, s)' => Used(c, s)
  BY <1>2, <1>3 DEF Used, Looking, Queued, Drawn
<1> QED
  BY <1>1, <1>5, <1>6 DEF NothingUsed

\* A use, by its three places.
LEMMA UsedPlaces ==
    ASSUME NEW c \in Clients, NEW s \in SubIds
    PROVE  Used(c, s) <=> Looking(c, s) # {} \/ Queued(c, s) # {} \/ Drawn(c, s) # {}
BY DEF Used, Looking, Queued, Drawn

\* A careful client's SUBSCRIBE uses an id that is nowhere yet.
LEMMA SubscribeUses ==
    ASSUME TypeOK, Careful, Uses, NEW c \in Clients, NEW d \in Destinations, NEW s \in SubIds,
           ClientSubscribes(c, d, s)
    PROVE  Uses'
<1> DEFINE l == [client |-> c, dest |-> d, sub |-> s, frame |-> frames[c]]
<1>1. /\ ~Used(c, s) /\ phase[c] = "alive"
      /\ lookups' = lookups \cup {l}
      /\ UNCHANGED <<actions, issued, phase>>
  BY DEF ClientSubscribes, SubscribeFrame, Reads, SpawnLookup, destVars
<1>2. /\ l.client = c /\ l.sub = s
  OBVIOUS
<1> HIDE DEF l
<1> SUFFICES ASSUME NEW x \in Clients, NEW y \in SubIds
             PROVE  UsedOnce(x, y)' /\ (phase'[x] = "connecting" => ~Used(x, y)')
  BY DEF Uses
<1>3. UsedOnce(x, y) /\ (phase[x] = "connecting" => ~Used(x, y))
  BY DEF Uses
<1>4. /\ Queued(x, y)' = Queued(x, y) /\ Drawn(x, y)' = Drawn(x, y)
      /\ \A e \in Destinations : AtMostOne(actions'[e], {SubscribeAction(x, y)})
  BY <1>1, <1>3 DEF Queued, Drawn, Ids, UsedOnce
<1>5. CASE x = c /\ y = s
  <2>1. Looking(x, y) = {} /\ Queued(x, y) = {} /\ Drawn(x, y) = {}
    BY <1>1, <1>5, UsedPlaces
  <2>2. Looking(x, y)' = {l}
    BY <1>1, <1>2, <1>5, <2>1 DEF Looking
  <2> QED
    BY <1>1, <1>3, <1>4, <1>5, <2>1, <2>2 DEF UsedOnce, Single
<1>6. CASE ~(x = c /\ y = s)
  <2>1. Looking(x, y)' = Looking(x, y)
    BY <1>1, <1>2, <1>6 DEF Looking
  <2>2. Used(x, y)' => Used(x, y)
    BY <1>4, <2>1 DEF Used, Looking, Queued, Drawn
  <2> QED
    BY <1>1, <1>3, <1>4, <2>1, <2>2 DEF UsedOnce
<1> QED
  BY <1>5, <1>6

\* The lookup hands its use to the queue of the destination it found.
LEMMA SubscribeFoundUses ==
    ASSUME TypeOK, Uses, NEW l \in lookups, SubscribeFound(l), UNCHANGED sessionVars
    PROVE  Uses'
<1> DEFINE a == SubscribeAction(l.client, l.sub)
<1>1. /\ l.client \in Clients /\ l.dest \in Destinations /\ l.sub \in SubIds
      /\ lookups' = lookups \ {l}
      /\ actions' = [actions EXCEPT ![l.dest] = Push(@, a)]
      /\ UNCHANGED <<issued, phase>>
  BY DEF SubscribeFound, Subscribe, PerformAction, sessionVars, TypeOK, MapTypeOK, Lookup
<1>2. /\ a \in DestinationAction
      /\ \A x \in Clients, y \in SubIds : a = SubscribeAction(x, y) <=> x = l.client /\ y = l.sub
  BY <1>1 DEF SubscribeAction, DestinationAction
<1>3. /\ \A e \in Destinations : /\ actions[e] \in ChannelOf(DestinationAction)
                                 /\ e # l.dest => actions'[e] = actions[e]
      /\ actions'[l.dest] = Push(actions[l.dest], a)
  BY <1>1 DEF TypeOK, DestTypeOK
<1> HIDE DEF a
<1>4. Pending(actions'[l.dest]) \subseteq Pending(actions[l.dest]) \cup {a}
  BY <1>1, <1>2, <1>3, PushProperties
<1> SUFFICES ASSUME NEW x \in Clients, NEW y \in SubIds
             PROVE  UsedOnce(x, y)' /\ (phase'[x] = "connecting" => ~Used(x, y)')
  BY DEF Uses
<1>5. UsedOnce(x, y) /\ (phase[x] = "connecting" => ~Used(x, y))
  BY DEF Uses
<1>6. Drawn(x, y)' = Drawn(x, y)
  BY <1>1 DEF Drawn, Ids
<1>7. ASSUME a # SubscribeAction(x, y) \/ Queued(x, y) = {}
      PROVE  \A e \in Destinations : AtMostOne(actions'[e], {SubscribeAction(x, y)})
  <2>1. a \notin {SubscribeAction(x, y)}
        \/ Pending(actions[l.dest]) \cap {SubscribeAction(x, y)} = {}
    BY <1>1, <1>7 DEF Queued
  <2>2. \A e \in Destinations : AtMostOne(actions[e], {SubscribeAction(x, y)})
    BY <1>5 DEF UsedOnce
  <2>3. AtMostOne(actions'[l.dest], {SubscribeAction(x, y)})
    BY <1>1, <1>2, <1>3, <2>1, <2>2, PushAtMostOne
  <2> QED
    BY <1>3, <2>2, <2>3
<1>8. CASE x = l.client /\ y = l.sub
  <2>1. l \in Looking(x, y)
    BY <1>8 DEF Looking
  <2>2. Looking(x, y) = {l} /\ Queued(x, y) = {} /\ Drawn(x, y) = {}
    BY <1>5, <2>1 DEF UsedOnce, Single
  <2>3. Looking(x, y)' = {} /\ Queued(x, y)' \subseteq {l.dest}
    BY <1>1, <1>3, <2>2 DEF Looking, Queued
  <2>4. phase'[x] # "connecting"
    BY <1>1, <1>5, <2>2, UsedPlaces
  <2> QED
    BY <1>6, <1>7, <2>2, <2>3, <2>4 DEF UsedOnce, Single
<1>9. CASE ~(x = l.client /\ y = l.sub)
  <2>1. Looking(x, y)' = Looking(x, y)
    BY <1>1, <1>9 DEF Looking
  <2>2. a # SubscribeAction(x, y)
    BY <1>2, <1>9
  <2>3. Queued(x, y)' \subseteq Queued(x, y)
    BY <1>3, <1>4, <2>2 DEF Queued
  <2>4. Used(x, y)' => Used(x, y)
    BY <1>6, <2>1, <2>3 DEF Used, Looking, Queued, Drawn
  <2> QED
    BY <1>1, <1>5, <1>6, <1>7, <2>1, <2>2, <2>3, <2>4 DEF UsedOnce, Single
<1> QED
  BY <1>8, <1>9

\* add_subscription turns the action into a uuid.
LEMMA AddSubscriptionUses ==
    ASSUME TypeOK, Uses, NEW d \in Destinations, AddSubscription(d), UNCHANGED <<sessionVars, lookups>>
    PROVE  Uses'
<1> DEFINE a == First(actions[d])
           i == Len(issued) + 1
           new == [client |-> a.client, dest |-> d, sub |-> a.sub]
<1>1. /\ Ready(actions[d]) /\ a \in Pending(actions[d]) /\ a \in DestinationAction
      /\ a.type = "Subscribe" /\ a.client \in Clients /\ a.sub \in SubIds
  BY HandlingTypes DEF AddSubscription, TypeOK
<1>2. /\ issued' = Append(issued, new) /\ Handled(d) /\ UNCHANGED <<phase, lookups>>
      /\ issued \in Seq(Subscription)
  BY DEF AddSubscription, sessionVars, TypeOK, DestTypeOK
<1>3. a = SubscribeAction(a.client, a.sub)
  BY <1>1 DEF SubscribeAction, DestinationAction, CloseAction
<1>4. /\ Ids' = Ids \cup {i} /\ i \notin Ids
      /\ issued'[i] = new
      /\ \A j \in Ids : issued'[j] = issued[j]
  <2>1. new \in Subscription
    BY <1>1 DEF Subscription
  <2>2. /\ Len(issued) \in Nat /\ Len(issued') = Len(issued) + 1
        /\ issued'[i] = new
        /\ \A j \in 1 .. Len(issued) : issued'[j] = issued[j]
    <3> HIDE DEF new
    <3> QED
      BY <1>2, <2>1
  <2> QED
    BY <2>2 DEF Ids
<1>5. new.client = a.client /\ new.sub = a.sub
  OBVIOUS
<1>6. NothingQueued
  BY <1>1, <1>2, HandledQueues
<1>7. \A x \in Clients, y \in SubIds : a = SubscribeAction(x, y) <=> x = a.client /\ y = a.sub
  <2>1. \A x, y : SubscribeAction(x, y).client = x /\ SubscribeAction(x, y).sub = y
    BY DEF SubscribeAction
  <2> QED
    BY <1>3, <2>1
<1>8. /\ actions[d] \in ChannelOf(DestinationAction)
      /\ actions'[d] = Pop(actions[d])
      /\ \A e \in Destinations : e # d => actions'[e] = actions[e]
  BY <1>2 DEF Handled, TypeOK, DestTypeOK
<1> HIDE DEF new, i
<1> SUFFICES ASSUME NEW x \in Clients, NEW y \in SubIds
             PROVE  UsedOnce(x, y)' /\ (phase'[x] = "connecting" => ~Used(x, y)')
  BY DEF Uses
<1>9. UsedOnce(x, y) /\ (phase[x] = "connecting" => ~Used(x, y))
  BY DEF Uses
<1>10. /\ Looking(x, y)' = Looking(x, y)
       /\ Queued(x, y)' \subseteq Queued(x, y)
       /\ \A e \in Destinations : AtMostOne(actions'[e], {SubscribeAction(x, y)})
  BY <1>2, <1>6, <1>9 DEF Looking, Queued, NothingQueued, SubscribeAction, UsedOnce
<1>11. CASE x = a.client /\ y = a.sub
  <2>1. d \in Queued(x, y) /\ a \in {SubscribeAction(x, y)}
    BY <1>1, <1>3, <1>11 DEF Queued
  <2>2. Queued(x, y) = {d} /\ Looking(x, y) = {} /\ Drawn(x, y) = {}
    BY <1>9, <2>1 DEF UsedOnce, Single
  <2>3. Drawn(x, y)' = {i}
    BY <1>4, <1>5, <1>11, <2>2 DEF Drawn
  <2>4. Queued(x, y)' = {}
    <3>1. Pending(actions'[d]) \cap {SubscribeAction(x, y)} = {}
      <4>1. AtMostOne(actions[d], {SubscribeAction(x, y)})
        BY <1>9 DEF UsedOnce
      <4> QED
        BY <1>1, <1>8, <2>1, <4>1, PopAtMostOne
    <3> QED
      BY <1>10, <2>2, <3>1 DEF Queued
  <2>5. phase'[x] # "connecting"
    BY <1>2, <1>9, <2>2, UsedPlaces
  <2> QED
    BY <1>10, <2>2, <2>3, <2>4, <2>5 DEF UsedOnce, Single
<1>12. CASE ~(x = a.client /\ y = a.sub)
  <2>1. Drawn(x, y)' = Drawn(x, y)
    BY <1>4, <1>5, <1>12 DEF Drawn
  <2>2. Used(x, y)' => Used(x, y)
    BY <1>10, <2>1 DEF Used, Looking, Queued, Drawn
  <2> QED
    BY <1>2, <1>9, <1>10, <2>1, <2>2 DEF UsedOnce, Single
<1> QED
  BY <1>11, <1>12

\* A session never connects twice.
LEMMA ConnectsOnce ==
    ASSUME TypeOK, NEW c \in Clients, SessionStep(c) \/ ClientFrame(c)
    PROVE  \A x \in Clients : phase'[x] = "connecting" => phase[x] = "connecting"
<1> DEFINE Goal == \A x \in Clients : phase'[x] = "connecting" => phase[x] = "connecting"
<1>1. ASSUME NEW how \in {"alive", "lingering", "closed", "panicked"},
             phase' = [phase EXCEPT ![c] = how]
      PROVE  Goal
  BY <1>1 DEF TypeOK, SessionTypeOK
<1>2. \/ UNCHANGED phase
      \/ \E how \in {"alive", "lingering", "closed", "panicked"} :
           phase' = [phase EXCEPT ![c] = how]
  BY DEF SessionStep, ClientFrame, Connect, Reject, BadFrame, UnknownUnsubscribe, Disconnect,
         UnhandledFrame, EndOfStream, HandleEvent, OnSubscribed, OnUnsubscribed, OnServerMessage,
         OnError, OnClose, Heartbeat, MissHeartbeat, SinkFails, LingerEnds, End,
         ClientSubscribes, SubscribeFrame, ClientSends, SendFrame, ClientUnsubscribes,
         UnsubscribeFrame, ClientUnsubscribePanics, UnsubscribePanic
<1> QED
  BY <1>1, <1>2

\* The frames that use no new id.
LEMMA FrameUsesNothing ==
    ASSUME TypeOK, NEW c \in Clients, ClientFrame(c)
    PROVE  \/ NothingUsed
           \/ \E d \in Destinations, s \in SubIds : ClientSubscribes(c, d, s)
<1>1. \A x \in Clients : phase'[x] = "connecting" => phase[x] = "connecting"
  BY ConnectsOnce
<1>2. ASSUME UNCHANGED actions
      PROVE  NothingQueued
  BY <1>2 DEF NothingQueued
<1>3. ASSUME NEW d \in Destinations, NEW m \in Messages, ClientSends(c, d, m)
      PROVE  NothingUsed
  <2>1. SendAction(m) \in DestinationAction /\ SendAction(m).type # "Subscribe"
    BY DEF SendAction, DestinationAction
  <2>2. UNCHANGED actions \/ PerformAction(d, SendAction(m))
    BY <1>3 DEF ClientSends, SendIfPresent, Send
  <2>3. NothingQueued
    BY <1>2, <2>1, <2>2, QueueOther
  <2> QED
    BY <1>1, <1>3, <2>3 DEF ClientSends, NothingUsed
<1>4. ASSUME NEW e \in active[c], ClientUnsubscribes(c, e)
      PROVE  NothingUsed
  <2>1. e.dest \in Destinations /\ e.id \in Nat
    BY DEF TypeOK, SessionTypeOK, Entry
  <2>2. /\ UnsubscribeAction(c, e.id) \in DestinationAction
        /\ UnsubscribeAction(c, e.id).type # "Subscribe"
    BY <2>1 DEF UnsubscribeAction, DestinationAction
  <2>3. UNCHANGED actions \/ PerformAction(e.dest, UnsubscribeAction(c, e.id))
    BY <1>4 DEF ClientUnsubscribes, UnsubscribeIfPresent, Unsubscribe
  <2>4. NothingQueued
    BY <1>2, <2>1, <2>2, <2>3, QueueOther
  <2> QED
    BY <1>1, <1>4, <2>4 DEF ClientUnsubscribes, NothingUsed
<1>5. ASSUME NEW e \in active[c], ClientUnsubscribePanics(c, e)
      PROVE  NothingUsed
  <2>1. UNCHANGED <<actions, issued, lookups>>
    BY <1>5 DEF ClientUnsubscribePanics, destVars
  <2> QED
    BY <1>1, <1>2, <2>1 DEF NothingUsed
<1> QED
  BY <1>3, <1>4, <1>5 DEF ClientFrame

\* Of what the tasks of destinations and of the map do, only the two steps on
\* the way of a SUBSCRIBE touch its use.
LEMMA DestinationUsesNothing ==
    ASSUME TypeOK, SendInHand, UNCHANGED sessionVars,
           DestinationStep \/ \E d \in Destinations : CloseDestination(d)
    PROVE  \/ NothingUsed
           \/ \E l \in lookups : SubscribeFound(l)
           \/ \E d \in Destinations : AddSubscription(d) /\ UNCHANGED lookups
<1>1. UNCHANGED phase
  BY DEF sessionVars
<1>2. ASSUME NothingQueued, UNCHANGED <<issued, lookups>>
      PROVE  NothingUsed
  BY <1>1, <1>2 DEF NothingUsed
<1>3. ASSUME NEW d \in Destinations, MapCreates(d)
      PROVE  NothingUsed
  BY <1>2, <1>3, EmptiedQueues DEF MapCreates, Create
<1>4. ASSUME NEW d \in Destinations, CloseDestination(d)
      PROVE  NothingUsed
  <2>1. CloseAction \in DestinationAction /\ CloseAction.type # "Subscribe"
    BY DEF CloseAction, DestinationAction
  <2> QED
    BY <1>2, <1>4, <2>1, QueueOther DEF CloseDestination, CloseHandle
<1>5. ASSUME NEW d \in Destinations, Backend(d), UNCHANGED lookups
      PROVE  NothingUsed \/ AddSubscription(d)
  <2>1. CASE RemoveSubscription(d)
    BY <1>2, <1>5, <2>1, HandledQueues DEF RemoveSubscription, Handling
  <2>2. CASE EndSend(d)
    BY <1>2, <1>5, <2>2, HandledQueues DEF EndSend, SendInHand
  <2>3. CASE RemoveUnknownSubscription(d) \/ CloseBackend(d)
    BY <1>2, <1>5, <2>3, EmptiedQueues DEF RemoveUnknownSubscription, CloseBackend, Stop
  <2>4. CASE BeginSend(d) \/ \E i \in todo[d] : SendTo(d, i)
    <3>1. UNCHANGED <<actions, issued>>
      BY <2>4 DEF BeginSend, SendTo
    <3>2. NothingQueued
      BY <3>1 DEF NothingQueued
    <3> QED
      BY <1>2, <1>5, <3>1, <3>2
  <2> QED
    BY <1>5, <2>1, <2>2, <2>3, <2>4 DEF Backend
<1> QED
  BY <1>3, <1>4, <1>5 DEF DestinationStep

\* A careful client's use of an id stays in one place.
LEMMA UsesStep ==
    ASSUME TypeOK, SendInHand, Careful, Uses, [Next]_vars
    PROVE  Uses'
<1>1. ASSUME NEW c \in Clients, SessionStep(c), UNCHANGED <<destVars, lookups>>
      PROVE  Uses'
  <2>1. UNCHANGED <<actions, issued, lookups>>
    BY <1>1 DEF destVars
  <2>2. NothingUsed
    BY <1>1, <2>1, ConnectsOnce DEF NothingUsed, NothingQueued
  <2> QED
    BY <2>2, NothingUsedStep
<1>2. ASSUME NEW c \in Clients, ClientFrame(c)
      PROVE  Uses'
  BY <1>2, FrameUsesNothing, NothingUsedStep, SubscribeUses
<1>3. ASSUME UNCHANGED sessionVars,
             DestinationStep \/ \E d \in Destinations : CloseDestination(d)
      PROVE  Uses'
  <2>1. \A d \in Destinations : AddSubscription(d) /\ UNCHANGED lookups => Uses'
    BY <1>3, AddSubscriptionUses
  <2> QED
    BY <1>3, <2>1, DestinationUsesNothing, NothingUsedStep, SubscribeFoundUses
<1>4. CASE UNCHANGED vars
  <2>1. UNCHANGED <<actions, issued, lookups, phase>>
    BY <1>4 DEF vars, destVars, sessionVars
  <2>2. NothingUsed
    BY <2>1 DEF NothingUsed, NothingQueued
  <2> QED
    BY <2>2, NothingUsedStep
<1>5. \A d \in Destinations : CloseDestination(d) => UNCHANGED sessionVars
  BY DEF CloseDestination
<1> QED
  BY <1>1, <1>2, <1>3, <1>4, <1>5 DEF Next

-----------------------------------------------------------------------------
(* The subscriptions on file.                                              *)

\* What NoOrphans says of one subscription.
OnFile(d, i) ==
    phase[issued[i].client] = "alive" =>
      \/ Subscribed(d, issued[i].sub, i) \in Pending(inbox[issued[i].client])
      \/ [sub |-> issued[i].sub, dest |-> d, id |-> i] \in active[issued[i].client]

\* A subscription a destination has is one that it has drawn the uuid of.
LEMMA SubscriptionFields ==
    ASSUME TypeOK, Filed, NEW d \in Destinations, NEW i \in subscriptions[d]
    PROVE  /\ i \in Ids /\ i # Failed
           /\ issued[i].client \in Clients /\ issued[i].sub \in SubIds /\ issued[i].dest = d
           /\ i \in Drawn(issued[i].client, issued[i].sub)
           /\ OnFile(d, i)
<1>1. i \in Ids
  BY DEF TypeOK, DestTypeOK
<1>2. i # Failed /\ issued[i].client \in Clients /\ issued[i].sub \in SubIds
  BY <1>1, IssuedTypes DEF TypeOK, Failed
<1> QED
  BY <1>1, <1>2 DEF Filed, AtHome, NoOrphans, OnFile, Drawn

\* A plain step neither answers nor announces, and a client that connects has
\* no subscription yet.
LEMMA PlainFiled ==
    ASSUME TypeOK, Uses, Filed, Plain
    PROVE  Filed'
<1>1. UNCHANGED <<issued, subscriptions, active>>
  BY DEF Plain
<1>2. AnswersAreTrue'
  BY <1>1 DEF Filed, AnswersAreTrue, Plain, InboxesPlain, PlainEvent
<1>3. ASSUME NEW d \in Destinations, NEW i \in subscriptions[d]
      PROVE  OnFile(d, i)'
  <2> DEFINE c == issued[i].client
             s == issued[i].sub
  <2>1. /\ i \in Ids /\ i # Failed /\ c \in Clients /\ s \in SubIds
        /\ i \in Drawn(c, s) /\ OnFile(d, i)
    BY SubscriptionFields
  <2>2. Subscribed(d, s, i) \notin PlainEvent
    BY <2>1 DEF PlainEvent, Subscribed
  <2>3. phase[c] # "connecting"
    BY <2>1, UsedPlaces DEF Uses
  <2>4. phase'[c] = "alive" => phase[c] = "alive"
    BY <2>1, <2>3 DEF Plain, PhasesPlain
  <2>5. Pending(inbox[c]) \subseteq Pending(inbox'[c]) \cup PlainEvent
    BY <2>1 DEF Plain, InboxesPlain
  <2> QED
    BY <1>1, <2>1, <2>2, <2>4, <2>5 DEF OnFile
<1> QED
  BY <1>1, <1>2, <1>3 DEF Filed, AtHome, NoOrphans, OnFile

\* A session that ends needs nothing on file, and takes no answers.
LEMMA EndFiled ==
    ASSUME TypeOK, Filed, NEW c \in Clients,
           NEW how \in {"lingering", "closed", "panicked"}, End(c, how),
           UNCHANGED <<destVars, lookups>>
    PROVE  Filed'
<1>1. UNCHANGED <<issued, subscriptions>>
  BY DEF destVars
<1>2. \A x \in Clients : /\ x # c => inbox'[x] = inbox[x]
                         /\ Pending(inbox'[x]) \subseteq Pending(inbox[x])
  BY DropInboxEffect DEF End, TypeOK
<1>3. /\ phase'[c] # "alive"
      /\ \A x \in Clients : x # c => active'[x] = active[x] /\ phase'[x] = phase[x]
  BY DEF End, TypeOK, SessionTypeOK
<1>4. AnswersAreTrue'
  BY <1>1, <1>2 DEF Filed, AnswersAreTrue
<1>5. ASSUME NEW d \in Destinations, NEW i \in subscriptions[d]
      PROVE  OnFile(d, i)'
  <2>1. issued[i].client \in Clients /\ OnFile(d, i)
    BY SubscriptionFields
  <2> QED
    BY <1>1, <1>2, <1>3, <2>1 DEF OnFile
<1> QED
  BY <1>1, <1>4, <1>5 DEF Filed, AtHome, NoOrphans, OnFile

\* Destinations that only lose subscriptions, and sessions that stay as they
\* are: nothing that has to be on file gets lost.
LEMMA FewerFiled ==
    ASSUME Filed, UNCHANGED <<issued, inbox, active, phase>>,
           \A d \in Destinations : subscriptions'[d] \subseteq subscriptions[d]
    PROVE  Filed'
<1>1. AnswersAreTrue' /\ AtHome'
  BY DEF Filed, AnswersAreTrue, AtHome
<1>2. NoOrphans'
  BY DEF Filed, NoOrphans
<1> QED
  BY <1>1, <1>2 DEF Filed

\* subscribed(): an id used once overwrites no other entry.
LEMMA OnSubscribedFiled ==
    ASSUME TypeOK, Core, Uses, Filed, NEW c \in Clients, OnSubscribed(c),
           UNCHANGED <<destVars, lookups>>
    PROVE  Filed'
<1> DEFINE e == NextEvent(c)
           filed == [sub |-> e.sub, dest |-> e.dest, id |-> e.result]
<1>1. /\ e \in ClientEvent /\ e \in Pending(inbox[c]) /\ e.type = "Subscribed"
      /\ Pending(inbox[c]) \subseteq Pending(inbox'[c]) \cup {e}
      /\ \A x \in Clients : /\ x # c => inbox'[x] = inbox[x]
                            /\ Pending(inbox'[x]) \subseteq Pending(inbox[x])
  BY TakeEventEffect DEF OnSubscribed, Event, TypeOK
<1>2. /\ UNCHANGED <<issued, subscriptions, phase>>
      /\ \A x \in Clients : x # c => active'[x] = active[x]
      /\ e.result = Failed => active'[c] = active[c]
      /\ e.result # Failed =>
           active'[c] = {x \in active[c] : x.sub # e.sub} \cup {filed}
  BY DEF OnSubscribed, Event, destVars, TypeOK, SessionTypeOK
<1>3. e.result # Failed =>
        /\ e.result \in Ids
        /\ issued[e.result].client = c /\ issued[e.result].dest = e.dest
        /\ issued[e.result].sub = e.sub
  <2>1. e.result # Failed =>
          /\ e.result \in Ids
          /\ issued[e.result] = [client |-> c, dest |-> e.dest, sub |-> e.sub]
    BY <1>1 DEF Core, Consistent, EventsConsistent, EventConsistent
  <2> HIDE DEF e
  <2> QED
    BY <2>1
<1>4. AnswersAreTrue'
  BY <1>1, <1>2 DEF Filed, AnswersAreTrue
<1>5. ASSUME NEW d \in Destinations, NEW i \in subscriptions[d]
      PROVE  OnFile(d, i)'
  <2> DEFINE s == issued[i].sub
             entry == [sub |-> s, dest |-> d, id |-> i]
  <2>1. /\ i # Failed /\ issued[i].client \in Clients /\ s \in SubIds
        /\ issued[i].dest = d /\ i \in Drawn(issued[i].client, s) /\ OnFile(d, i)
    BY SubscriptionFields
  <2>2. CASE issued[i].client # c
    BY <1>1, <1>2, <2>1, <2>2 DEF OnFile
  <2>3. CASE issued[i].client = c
    <3>1. entry.sub = s
      OBVIOUS
    <3>2. CASE Subscribed(d, s, i) = e
      <4>1. e.dest = d /\ e.sub = s /\ e.result = i
        BY <3>2 DEF Subscribed
      <4>2. filed = entry
        BY <4>1
      <4> HIDE DEF e, filed, entry
      <4>3. entry \in active'[c]
        BY <1>2, <2>1, <4>1, <4>2
      <4> QED
        BY <1>2, <2>3, <4>3 DEF OnFile, entry
    <3>3. CASE e.result # Failed /\ e.sub = s
      <4>1. e.result \in Drawn(c, s)
        BY <1>3, <3>3 DEF Drawn
      <4>2. e.result = i
        BY <2>1, <2>3, <4>1 DEF Uses, UsedOnce, Single
      <4>3. e.dest = d
        BY <1>3, <2>1, <3>3, <4>2
      <4>4. filed = entry
        BY <3>3, <4>2, <4>3
      <4> HIDE DEF e, filed, entry
      <4>5. entry \in active'[c]
        BY <1>2, <3>3, <4>4
      <4> QED
        BY <1>2, <2>3, <4>5 DEF OnFile, entry
    <3>4. CASE Subscribed(d, s, i) # e /\ ~(e.result # Failed /\ e.sub = s)
      <4> HIDE DEF e, filed, entry
      <4>1. entry \in active[c] => entry \in active'[c]
        BY <1>2, <3>1, <3>4
      <4> QED
        BY <1>1, <1>2, <2>1, <2>3, <3>4, <4>1 DEF OnFile, entry
    <3> QED
      BY <3>2, <3>3, <3>4
  <2> QED
    BY <2>2, <2>3
<1> QED
  BY <1>2, <1>4, <1>5 DEF Filed, AtHome, NoOrphans, OnFile

\* unsubscribed(): what goes from the table has left its destination.
LEMMA OnUnsubscribedFiled ==
    ASSUME TypeOK, Core, Uses, Filed, NEW c \in Clients, OnUnsubscribed(c),
           UNCHANGED <<destVars, lookups>>
    PROVE  Filed'
<1> DEFINE e == NextEvent(c)
<1>1. /\ e \in Pending(inbox[c]) /\ e.type = "Unsubscribed"
      /\ Pending(inbox[c]) \subseteq Pending(inbox'[c]) \cup {e}
      /\ \A x \in Clients : /\ x # c => inbox'[x] = inbox[x]
                            /\ Pending(inbox'[x]) \subseteq Pending(inbox[x])
  BY TakeEventEffect DEF OnUnsubscribed, Event, TypeOK
<1>2. /\ UNCHANGED <<issued, subscriptions, phase>>
      /\ \A x \in Clients : x # c => active'[x] = active[x]
      /\ {x \in active[c] : x.sub # e.sub} \subseteq active'[c]
  BY DEF OnUnsubscribed, Event, destVars, TypeOK, SessionTypeOK
<1>3. e.result \in Ids /\ issued[e.result].client = c /\ issued[e.result].sub = e.sub
  BY <1>1 DEF Core, Consistent, EventsConsistent, EventConsistent
<1>4. \A d \in Destinations : e.result \notin subscriptions[d]
  BY <1>1 DEF Filed, AnswersAreTrue
<1> HIDE DEF e
<1>5. AnswersAreTrue'
  BY <1>1, <1>2 DEF Filed, AnswersAreTrue
<1>6. ASSUME NEW d \in Destinations, NEW i \in subscriptions[d]
      PROVE  OnFile(d, i)'
  <2> DEFINE s == issued[i].sub
             entry == [sub |-> s, dest |-> d, id |-> i]
  <2>1. /\ issued[i].client \in Clients /\ s \in SubIds
        /\ i \in Drawn(issued[i].client, s) /\ OnFile(d, i)
    BY SubscriptionFields
  <2>2. CASE issued[i].client # c
    BY <1>1, <1>2, <2>1, <2>2 DEF OnFile
  <2>3. CASE issued[i].client = c
    <3>1. Subscribed(d, s, i) # e
      BY <1>1 DEF Subscribed
    <3>2. s # e.sub
      <4>1. SUFFICES ASSUME s = e.sub PROVE FALSE
        OBVIOUS
      <4>2. e.result \in Drawn(c, s)
        BY <1>3, <4>1 DEF Drawn
      <4>3. e.result = i
        BY <2>1, <2>3, <4>2 DEF Uses, UsedOnce, Single
      <4> QED
        BY <1>4, <4>3
    <3>3. entry.sub = s
      OBVIOUS
    <3> HIDE DEF entry
    <3>4. entry \in active[c] => entry \in active'[c]
      BY <1>2, <3>2, <3>3
    <3> QED
      BY <1>1, <1>2, <2>1, <2>3, <3>1, <3>4 DEF OnFile, entry
  <2> QED
    BY <2>2, <2>3
<1> QED
  BY <1>2, <1>5, <1>6 DEF Filed, AtHome, NoOrphans, OnFile

\* add_subscription: the new uuid is announced to whoever is alive to hear it.
LEMMA AddSubscriptionFiled ==
    ASSUME TypeOK, Core, Filed, NEW d \in Destinations, AddSubscription(d), UNCHANGED sessionVars
    PROVE  Filed'
<1> DEFINE a == First(actions[d])
           i == Len(issued) + 1
           e == Subscribed(d, a.sub, i)
<1>1. a.client \in Clients /\ a.sub \in SubIds /\ i \in Nat
  BY HandlingTypes DEF AddSubscription, TypeOK, DestTypeOK
<1>2. e \in ClientEvent /\ e.type = "Subscribed"
  BY <1>1 DEF Subscribed, ClientEvent
<1>3. /\ \A x \in Clients : /\ Pending(inbox[x]) \subseteq Pending(inbox'[x])
                            /\ Pending(inbox'[x]) \subseteq Pending(inbox[x]) \cup {e}
      /\ Alive(a.client) => e \in Pending(inbox'[a.client])
  BY <1>1, <1>2, SendEventEffect DEF AddSubscription, TypeOK
<1>4. /\ i \notin Ids
      /\ issued'[i] = [client |-> a.client, dest |-> d, sub |-> a.sub]
      /\ \A j \in Ids : issued'[j] = issued[j]
  BY <1>1 DEF AddSubscription, TypeOK, DestTypeOK, Subscription, Ids
<1>5. /\ UNCHANGED <<active, phase>>
      /\ \A x \in Destinations : x # d => subscriptions'[x] = subscriptions[x]
      /\ subscriptions'[d] = subscriptions[d] \cup {i}
  BY DEF AddSubscription, sessionVars, TypeOK, DestTypeOK
<1>6. issued'[i].client = a.client /\ issued'[i].dest = d /\ issued'[i].sub = a.sub
  BY <1>4
<1>7. phase[a.client] = "alive" => Alive(a.client)
  BY <1>1 DEF Core, Gone, ChannelClosedWithSession
<1> HIDE DEF i, a
<1>8. AnswersAreTrue'
  <2> SUFFICES ASSUME NEW c \in Clients, NEW f \in Pending(inbox'[c]), f.type = "Unsubscribed",
                      NEW x \in Destinations
               PROVE  f.result \notin subscriptions'[x]
    BY DEF AnswersAreTrue
  <2>1. f \in Pending(inbox[c])
    BY <1>2, <1>3
  <2>2. f.result \in Ids
    BY <2>1 DEF Core, Consistent, EventsConsistent, EventConsistent
  <2> QED
    BY <1>4, <1>5, <2>1, <2>2 DEF Filed, AnswersAreTrue
<1>9. ASSUME NEW x \in Destinations, NEW j \in subscriptions'[x]
      PROVE  issued'[j].dest = x /\ OnFile(x, j)'
  <2>1. CASE j = i /\ x = d
    BY <1>3, <1>5, <1>6, <1>7, <2>1 DEF OnFile
  <2>2. CASE j \in subscriptions[x]
    <3>1. j \in Ids /\ issued[j].client \in Clients /\ issued[j].dest = x /\ OnFile(x, j)
      BY <2>2, SubscriptionFields
    <3> QED
      BY <1>3, <1>4, <1>5, <3>1 DEF OnFile
  <2> QED
    BY <1>5, <2>1, <2>2
<1> QED
  BY <1>8, <1>9 DEF Filed, AtHome, NoOrphans, OnFile

\* remove_subscription: the answer is true, here and at every other destination.
LEMMA RemoveSubscriptionFiled ==
    ASSUME TypeOK, Core, Filed, NEW d \in Destinations, RemoveSubscription(d),
           UNCHANGED sessionVars
    PROVE  Filed'
<1> DEFINE a == First(actions[d])
           e == Unsubscribed(issued[a.id].sub, a.id)
<1>1. a.client \in Clients /\ a.id \in Nat /\ a.id \in subscriptions[d]
  BY HandlingTypes DEF RemoveSubscription, TypeOK
<1>2. e \in ClientEvent /\ e.result = a.id
  <2>1. issued[a.id].sub \in SubIds
    BY <1>1, SubscriptionFields
  <2> QED
    BY <1>1, <2>1 DEF Unsubscribed, ClientEvent
<1>3. \A x \in Clients : /\ Pending(inbox[x]) \subseteq Pending(inbox'[x])
                         /\ Pending(inbox'[x]) \subseteq Pending(inbox[x]) \cup {e}
  BY <1>1, <1>2, SendEventEffect DEF RemoveSubscription, TypeOK
<1>4. /\ UNCHANGED <<issued, active, phase>>
      /\ \A x \in Destinations : x # d => subscriptions'[x] = subscriptions[x]
      /\ subscriptions'[d] = subscriptions[d] \ {a.id}
  BY DEF RemoveSubscription, sessionVars, TypeOK, DestTypeOK
<1>5. \A x \in Destinations : a.id \notin subscriptions'[x]
  BY <1>1, <1>4 DEF Filed, AtHome
<1> HIDE DEF a, e
<1>6. AnswersAreTrue'
  BY <1>2, <1>3, <1>4, <1>5 DEF Filed, AnswersAreTrue
<1>7. ASSUME NEW x \in Destinations, NEW j \in subscriptions'[x]
      PROVE  issued[j].dest = x /\ OnFile(x, j)'
  <2>1. j \in subscriptions[x]
    BY <1>4
  <2>2. issued[j].client \in Clients /\ issued[j].dest = x /\ OnFile(x, j)
    BY <2>1, SubscriptionFields
  <2> QED
    BY <1>3, <1>4, <2>2 DEF OnFile
<1> QED
  BY <1>4, <1>6, <1>7 DEF Filed, AtHome, NoOrphans, OnFile

\* Every step keeps on file what has to be.
LEMMA FiledStep ==
    ASSUME TypeOK, SendInHand, Core, Uses, Filed, [Next]_vars
    PROVE  Filed'
<1>1. CASE SessionEnds
  BY <1>1, EndFiled DEF SessionEnds
<1>2. ASSUME NEW d \in Destinations, NEW how \in {"closed", "panicked"},
             Stop(d, how), UNCHANGED <<inbox, active, phase>>
      PROVE  Filed'
  <2>1. UNCHANGED issued /\ \A x \in Destinations : subscriptions'[x] \subseteq subscriptions[x]
    BY <1>2 DEF Stop, TypeOK, DestTypeOK
  <2> QED
    BY <1>2, <2>1, FewerFiled
<1>3. ASSUME NEW d \in Destinations, EndSend(d), UNCHANGED sessionVars
      PROVE  Filed'
  <2>1. /\ UNCHANGED <<issued, inbox, active, phase>>
        /\ \A x \in Destinations : subscriptions'[x] \subseteq subscriptions[x]
    BY <1>3 DEF EndSend, proxyVars, sessionVars, TypeOK, DestTypeOK
  <2> QED
    BY <2>1, FewerFiled
<1>4. ASSUME NEW c \in Clients, NEW e \in active[c], ClientUnsubscribes(c, e)
      PROVE  Filed'
  <2>1. UNCHANGED <<issued, subscriptions, inbox, active, phase>>
    BY <1>4 DEF ClientUnsubscribes, UnsubscribeFrame, proxyVars
  <2> QED
    BY <2>1, FewerFiled
<1>5. CASE BackendStops
  BY <1>2, <1>5 DEF BackendStops
<1> QED
  BY <1>1, <1>3, <1>4, <1>5, StepKinds, PlainFiled, OnSubscribedFiled, OnUnsubscribedFiled,
     AddSubscriptionFiled, RemoveSubscriptionFiled

-----------------------------------------------------------------------------
(* Careful clients leave no orphans.                                       *)

\* At first no id is used, and nothing is subscribed.
LEMMA InitCareful == Init => CarefulInv
<1> SUFFICES ASSUME Init PROVE CarefulInv
  OBVIOUS
<1>1. /\ lookups = {} /\ issued = <<>>
      /\ \A d \in Destinations : actions[d] = Dropped /\ subscriptions[d] = {}
      /\ \A c \in Clients : inbox[c] = NewChannel
  BY DEF Init, ProxyInit, DestInit, MapInit
<1>2. /\ \A c \in Clients : Pending(inbox[c]) = {}
      /\ \A d \in Destinations : /\ Pending(actions[d]) = {}
                                 /\ \A Kind : AtMostOne(actions[d], Kind)
  BY <1>1 DEF Pending, NewChannel, Dropped, AtMostOne
<1>3. Ids = {}
  BY <1>1 DEF Ids
<1>4. Uses
  BY <1>1, <1>2, <1>3, UsedPlaces DEF Uses, UsedOnce, Single, Looking, Queued, Drawn
<1>5. Filed
  BY <1>1, <1>2 DEF Filed, AnswersAreTrue, AtHome, NoOrphans
<1> QED
  BY <1>4, <1>5 DEF CarefulInv

\* If clients use an id once and repeat no UNSUBSCRIBE, no destination has a
\* subscription of a living session that the session does not know, or is
\* about to be told of: neither the overwriting in subscribed() nor the removal
\* in unsubscribed() (client.rs) loses an entry that still counts.
THEOREM CarefulLeaveNoOrphans ==
    ASSUME Careful
    PROVE  Spec => []NoOrphans
<1>1. IInv /\ CarefulInv /\ [Next]_vars => CarefulInv'
  BY UsesStep, FiledStep DEF IInv, Core, CarefulInv
<1>2. CarefulInv => NoOrphans
  BY DEF CarefulInv, Filed
<1> QED
  BY <1>1, <1>2, InitCareful, Invariance, PTL DEF Spec
=============================================================================
