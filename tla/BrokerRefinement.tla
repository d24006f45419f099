-------------------------- MODULE BrokerRefinement --------------------------
(***************************************************************************)
(* The environments that OpenSession and OpenDestination leave open admit  *)
(* what the two do to each other in the broker, so that what holds of      *)
(* sessions among arbitrary destinations, and of destinations among        *)
(* arbitrary sessions, holds in the broker.                                *)
(***************************************************************************)
EXTENDS BrokerInvariants

\* More calls and events than there can be in an instance of the broker.
Unbounded == 100

Sessions == INSTANCE OpenSession WITH MaxEvents <- Unbounded

\* A session's own Error and Close are no business of destinations.
Public(events) == SelectSeq(events, LAMBDA e : e \notin {Error, Close})

Dests == INSTANCE OpenDestination WITH
    MaxCalls <- Unbounded,
    inbox <- [c \in Clients |-> [inbox[c] EXCEPT !.queue = Public(@)]],
    seen <- [c \in Clients |-> Public(seen[c])]

\* To a session, the map and its destinations behave as OpenSession allows:
\* they send nothing to a session that has yet to connect, and touch nothing
\* of its state but its channel.  Its frames change nothing of it by
\* themselves: entries come and go with the callbacks (client.rs:283-307).
\* So OpenSession's promises, ErrorEndsSession among them, are the broker's too.
ImplementsOpenSession == Sessions!Spec

\* To a destination, sessions and the map behave as OpenDestination allows: a
\* destination is made once (destinations.rs:46), events are taken in order,
\* and who unsubscribes a subscription is alive and is the one that has it
\* (client.rs:255-274), which depends on the table of its session, for the
\* destination does not look (inmemory.rs:218).
\* So SubscriptionFollowsLog is a promise of the broker too.
ImplementsOpenDestination == Dests!Spec
=============================================================================
