-------------------------- MODULE BrokerInvariants --------------------------
(***************************************************************************)
(* The inductive invariant behind TableMatchesBackend.  It follows the     *)
(* life of a subscription id: drawn by add_subscription, announced to the  *)
(* session in a Subscribed event, filed in its table, named in an          *)
(* Unsubscribe action, and answered by an Unsubscribed event.              *)
(***************************************************************************)
EXTENDS Broker

\* Whoever mentions an id, and whatever it says of it, is right about the
\* subscription the id was drawn for.
EventConsistent(c, e) ==
    /\ e.type = "Subscribed" /\ e.result # Failed =>
         /\ e.result \in Ids
         /\ issued[e.result] = [client |-> c, dest |-> e.dest, sub |-> e.sub]
    /\ e.type = "Unsubscribed" =>
         /\ e.result \in Ids
         /\ issued[e.result].client = c
         /\ issued[e.result].sub = e.sub
EventsConsistent ==
    \A c \in Clients : \A e \in Pending(inbox[c]) : EventConsistent(c, e)

TablesConsistent ==
    \A c \in Clients : \A e \in active[c] :
        /\ e.id \in Ids
        /\ issued[e.id] = [client |-> c, dest |-> e.dest, sub |-> e.sub]

ActionsConsistent ==
    \A d \in Destinations : \A a \in Pending(actions[d]) :
        a.type = "Unsubscribe" =>
            /\ a.id \in Ids
            /\ issued[a.id].client = a.client
            /\ issued[a.id].dest = d

\* A session that has no task, or not yet, has no table and no events.
EndedHaveNothing ==
    \A c \in Clients : phase[c] # "alive" => active[c] = {}
ClosedAreEmpty ==
    \A c \in Clients : ~Alive(c) => Pending(inbox[c]) = {}

\* The events in a channel announce an id at most once, ...
Announcements(i) == [type : {"Subscribed"}, dest : Destinations, sub : SubIds, result : {i}]
AnnouncedOnce ==
    \A c \in Clients : \A i \in Ids : AtMostOne(inbox[c], Announcements(i))

\* ... and an id that is still to be announced is in no table, nobody has asked
\* to unsubscribe it, and its destination, if it runs, has it.
AnnouncedIsNew ==
    \A c \in Clients : \A e \in Pending(inbox[c]) : \A i \in Ids :
        e \in Announcements(i) =>
            /\ \A x \in active[c] : x.id # i
            /\ \A a \in Pending(actions[e.dest]) : a.type = "Unsubscribe" => a.id # i
            /\ i \in subscriptions[e.dest] \/ Stopped(e.dest)

\* A handle finds the receiver of its destination as long as the destination
\* runs, and only destinations that were made draw ids.
HandlesReachTasks ==
    \A d \in Destinations : actions[d].open <=> backend[d] \in {"listening", "sending"}
IdsOfDestinations ==
    \A i \in Ids : backend[issued[i].dest] # "absent"

Consistent == EventsConsistent /\ TablesConsistent /\ ActionsConsistent
Gone == ChannelClosedWithSession /\ EndedHaveNothing /\ ClosedAreEmpty
Announced == AnnouncedOnce /\ AnnouncedIsNew

\* The inductive invariant.
IInv ==
    /\ TypeOK
    /\ SendInHand
    /\ DeadAreGone
    /\ Consistent
    /\ Gone
    /\ Announced
    /\ TableMatchesBackend

\* What SubscriberIsHeard needs besides.
Reachable == HandlesReachTasks /\ IdsOfDestinations
=============================================================================
