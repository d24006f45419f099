-------------------------- MODULE TopicRefinement --------------------------
(***************************************************************************)
(* InMemDestination implements AbstractTopics: a message is published when *)
(* the task begins to fan it out, to all subscribers at once, although it  *)
(* then reaches one channel after the other while sessions take events,    *)
(* end, and call the handles again.                                        *)
(***************************************************************************)
EXTENDS OpenDestination

Owner(i) == issued[i].client
Home(i) == issued[i].dest

\* What the client of subscription i was handed, in the words of a topic.
Word(e) == CASE e.type = "Subscribed" -> "joined"
             [] e.type = "Unsubscribed" -> "left"
             [] OTHER -> e.message
Handed(i) == [k \in DOMAIN Delivered(i) |-> Word(Delivered(i)[k])]

\* What the loop of send has yet to hand it.
Awaited(i) == IF i \in todo[Home(i)] /\ Alive(Owner(i))
              THEN <<First(actions[Home(i)]).message>> ELSE <<>>

Abstract == INSTANCE AbstractTopics WITH
    Topics <- Destinations,
    Subscribers <- Clients,
    known <- [i \in Ids |-> [topic |-> Home(i), subscriber |-> Owner(i)]],
    members <- subscriptions,
    present <- {c \in Clients : Alive(c)},
    stopped <- {d \in Destinations : Stopped(d)},
    due <- [i \in Ids |-> Awaited(i)],
    got <- [i \in Ids |-> Handed(i)]

\* Destinations are topics: to their subscribers, fanning out is as good as one
\* atomic step, in whatever order the loop of send goes (inmemory.rs:226-251).
ImplementsTopics == Abstract!Spec
=============================================================================
