------------------------- MODULE AsyncDestinations -------------------------
(***************************************************************************)
(* src/asynchronous/destinations.rs: the map from destination ids to       *)
(* destinations that all sessions share.  A SUBSCRIBE makes the            *)
(* destination if need be, in a task spawned for it; SEND and UNSUBSCRIBE  *)
(* look the destination up at once, in the task of the session, and may    *)
(* therefore overtake a SUBSCRIBE of the same client.                      *)
(***************************************************************************)
EXTENDS InMemDestination

VARIABLE lookups   \* the tasks spawned by subscribe that have not run yet

\* Two SUBSCRIBEs of a client may be the same but for the frame they came in.
Lookup == [client : Clients, dest : Destinations, sub : SubIds, frame : Nat]

MapTypeOK == lookups \in SUBSET Lookup
MapInit == lookups = {}

\* Destinations::subscribe
SpawnLookup(c, d, s, n) ==
    lookups' = lookups \cup {[client |-> c, dest |-> d, sub |-> s, frame |-> n]}

\* Mutant: a destination that was closed is replaced.
MapReplacesClosed(d) ==
    /\ \E l \in lookups : l.dest = d
    /\ backend[d] \in {"absent", "closed"}
    /\ backend' = [backend EXCEPT ![d] = "listening"]
    /\ actions' = [actions EXCEPT ![d] = NewChannel]
    /\ UNCHANGED <<issued, subscriptions, todo, dead, log, lookups, proxyVars>>

\* VersionedMap::get (crate async-map) makes a missing destination with the
\* factory, one for all the lookups that wait for it.
MapCreates(d) ==
    /\ \E l \in lookups : l.dest = d
    /\ Create(d)
    /\ UNCHANGED <<lookups, proxyVars>>

\* The destination is there: the task subscribes to it, and ends.
SubscribeFound(l) ==
    /\ backend[l.dest] # "absent"
    /\ lookups' = lookups \ {l}
    /\ Subscribe(l.dest, l.client, l.sub)
    /\ UNCHANGED <<backend, issued, subscriptions, todo, dead, log, seen>>

\* Mutant: a destination at work is not given the message either.
SendIfPresentUnlessBusy(d, m) ==
    IF backend[d] # "listening" THEN UNCHANGED actions ELSE Send(d, m)

\* Destinations::send: without a destination the message is lost, for
\* AsyncStompClient::send_callback ignores the Err it gets.
SendIfPresent(d, m) ==
    IF backend[d] = "absent" THEN UNCHANGED actions ELSE Send(d, m)

\* Destinations::unsubscribe
UnsubscribeIfPresent(d, c, i) ==
    IF backend[d] = "absent" THEN UNCHANGED actions ELSE Unsubscribe(d, c, i)
UnsubscribeIfPresentPanics(d) == backend[d] # "absent" /\ UnsubscribePanics(d)

DestinationStep ==
    \/ \E d \in Destinations : MapCreates(d)
    \/ \E l \in lookups : SubscribeFound(l)
    \/ \E d \in Destinations : Backend(d) /\ UNCHANGED lookups

\* Every task that is ready is run by tokio: the lookups, and the backends.
DestinationFairness ==
    /\ \A d \in Destinations :
         /\ WF_<<destVars, proxyVars, lookups>>(MapCreates(d))
         /\ WF_<<destVars, proxyVars, lookups>>(Backend(d) /\ UNCHANGED lookups)
    /\ \A c \in Clients, d \in Destinations, s \in SubIds :
         WF_<<destVars, proxyVars, lookups>>(
           \E l \in lookups : l.client = c /\ l.dest = d /\ l.sub = s /\ SubscribeFound(l))
=============================================================================
