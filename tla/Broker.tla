------------------------------- MODULE Broker -------------------------------
(***************************************************************************)
(* The library as a whole: client sessions (ClientSession) that share one  *)
(* map of in-memory destinations (AsyncDestinations).  A session reaches a *)
(* destination by calls on its handle; a destination reaches a session by  *)
(* the events it sends to its AsyncStompClient.  The clients, and whoever  *)
(* holds a handle and closes it, are the environment.                      *)
(***************************************************************************)
EXTENDS AsyncDestinations, ClientSession

CONSTANTS
    Careful,   \* clients never reuse a subscription id or repeat an UNSUBSCRIBE
    Closable   \* the destinations somebody may close

ASSUME CarefulAssumption == Careful \in BOOLEAN
ASSUME ClosableAssumption == Closable \subseteq Destinations

vars == <<destVars, proxyVars, sessionVars, lookups>>

-----------------------------------------------------------------------------
(* What a careful client keeps track of.                                   *)

Used(c, s) ==
    \/ \E l \in lookups : l.client = c /\ l.sub = s
    \/ \E d \in Destinations : SubscribeAction(c, s) \in Pending(actions[d])
    \/ \E i \in Ids : issued[i].client = c /\ issued[i].sub = s

Unsubscribing(c, e) ==
    \/ UnsubscribeAction(c, e.id) \in Pending(actions[e.dest])
    \/ Unsubscribed(e.sub, e.id) \in Pending(inbox[c])

-----------------------------------------------------------------------------
(* The frames a destination has a part in: ClientSession::handle.          *)

ClientSubscribes(c, d, s) ==
    /\ Careful => ~Used(c, s)
    /\ SubscribeFrame(c)
    /\ SpawnLookup(c, d, s, frames[c])
    /\ UNCHANGED <<destVars, proxyVars>>

ClientSends(c, d, m) ==
    /\ SendFrame(c)
    /\ SendIfPresent(d, m)
    /\ UNCHANGED <<backend, issued, subscriptions, todo, dead, log, proxyVars, lookups>>

\* Mutant: the session forgets the entry before the destination has answered.
ClientUnsubscribesForgets(c, e) ==
    /\ Careful => ~Unsubscribing(c, e)
    /\ e \in active[c]
    /\ Reads(c, "UNSUBSCRIBE")
    /\ active' = [active EXCEPT ![c] = @ \ {e}]
    /\ UnsubscribeIfPresent(e.dest, c, e.id)
    /\ UNCHANGED <<phase, out, listener, backend, issued, subscriptions, todo, dead,
                   log, proxyVars, lookups>>

ClientUnsubscribes(c, e) ==
    /\ Careful => ~Unsubscribing(c, e)
    /\ UnsubscribeFrame(c, e)
    /\ UnsubscribeIfPresent(e.dest, c, e.id)
    /\ UNCHANGED <<backend, issued, subscriptions, todo, dead, log, proxyVars, lookups>>

\* The destination stopped after the client subscribed.
ClientUnsubscribePanics(c, e) ==
    /\ Careful => ~Unsubscribing(c, e)
    /\ UnsubscribePanic(c, e)
    /\ UnsubscribeIfPresentPanics(e.dest)
    /\ UNCHANGED <<destVars, lookups>>

ClientFrame(c) ==
    \/ \E d \in Destinations, s \in SubIds : ClientSubscribes(c, d, s)
    \/ \E d \in Destinations, m \in Messages : ClientSends(c, d, m)
    \/ \E e \in active[c] : ClientUnsubscribes(c, e) \/ ClientUnsubscribePanics(c, e)

\* Destination::close, once.
CloseDestination(d) ==
    /\ d \in Closable
    /\ backend[d] # "absent"
    /\ CloseAction \notin Pending(actions[d])
    /\ CloseHandle(d)
    /\ UNCHANGED <<backend, issued, subscriptions, todo, dead, log, proxyVars,
                   sessionVars, lookups>>

-----------------------------------------------------------------------------
Init == ProxyInit /\ DestInit /\ MapInit /\ SessionInit

Next ==
    \/ \E c \in Clients : SessionStep(c) /\ UNCHANGED <<destVars, lookups>>
    \/ \E c \in Clients : ClientFrame(c)
    \/ DestinationStep /\ UNCHANGED sessionVars
    \/ \E d \in Destinations : CloseDestination(d)

Spec == Init /\ [][Next]_vars
FairSpec == Spec /\ SessionFairness /\ DestinationFairness

TypeOK == ProxyTypeOK /\ DestTypeOK /\ MapTypeOK /\ SessionTypeOK

-----------------------------------------------------------------------------
(* What the parts owe each other.                                          *)

Owns(c, e) == /\ e.id \in subscriptions[e.dest]
              /\ issued[e.id] = [client |-> c, dest |-> e.dest, sub |-> e.sub]

\* Every entry of a session's table stands for a subscription that its
\* destination really has, for this client and under this id, unless the
\* destination stopped or the answer to an UNSUBSCRIBE is on its way.  Table
\* and HashMap are in different tasks and are kept in step by callbacks only
\* (subscribed, unsubscribed; add_subscription, remove_subscription), and the
\* pruning in send removes subscriptions without telling anybody.
TableMatchesBackend ==
    \A c \in Clients : \A e \in active[c] :
        \/ Owns(c, e)
        \/ Unsubscribed(e.sub, e.id) \in Pending(inbox[c])
        \/ Stopped(e.dest)

\* Conversely, a destination has no subscription of a living session that the
\* session does not know or is about to be told of: the client could never
\* get rid of it.  It takes careful clients: SUBSCRIBE with an id in use
\* overwrites the entry (client.rs:290), and the answer to an UNSUBSCRIBE
\* removes whatever then has the id (client.rs:302).
NoOrphans ==
    \A d \in Destinations : \A i \in subscriptions[d] :
        LET c == issued[i].client
            s == issued[i].sub
        IN  phase[c] = "alive" =>
              \/ Subscribed(d, s, i) \in Pending(inbox[c])
              \/ [sub |-> s, dest |-> d, id |-> i] \in active[c]

\* Once a client is subscribed to a destination, its SEND is not lost: the
\* destination has it at the end of its queue, unless it stopped.  A SUBSCRIBE
\* makes the destination in a task of its own, and SEND looks it up at once and
\* drops the message if there is none (destinations.rs:64); only the way of the
\* subscription through the destination and back makes up for that.
SubscriberIsHeard ==
    [][\A c \in Clients : \A e \in active[c] : \A m \in Messages :
          ClientSends(c, e.dest, m) /\ ~Stopped(e.dest) =>
            actions'[e.dest].queue = Append(actions[e.dest].queue, SendAction(m))]_vars

\* A SUBSCRIBE takes effect: the lookup, the queue of the destination and the
\* callback all come to an end, unless the session does or the destination
\* stopped, which its client is not told (client.rs:289).
SubscribeTakesEffect ==
    \A c \in Clients, d \in Destinations, s \in SubIds :
        (\E l \in lookups : l.client = c /\ l.dest = d /\ l.sub = s)
          ~> \/ \E e \in active[c] : e.sub = s /\ e.dest = d
             \/ phase[c] # "alive"
             \/ Stopped(d)

\* An UNSUBSCRIBE takes effect: the destination drops the subscription, and
\* the session the entry.
UnsubscribeTakesEffect ==
    \A c \in Clients, d \in Destinations : \A i \in 1 .. MaxFrames * Cardinality(Clients) :
        (UnsubscribeAction(c, i) \in Pending(actions[d]))
          ~> \/ i \notin subscriptions[d] /\ \A e \in active[c] : e.id # i
             \/ phase[c] # "alive" /\ i \notin subscriptions[d]
             \/ Stopped(d)

\* AsyncStompClient is always given the client's own subscription id, as
\* unwrap_subscriber_sub_id expects (client.rs:107-110): no destination's task
\* is ended by the panic of a callback.
CallbackHasClientId == \A d \in Destinations : backend[d] # "panicked"
=============================================================================
