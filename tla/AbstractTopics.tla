--------------------------- MODULE AbstractTopics ---------------------------
(***************************************************************************)
(* What in-memory destinations promise, without tasks, queues and loops:   *)
(* a topic publishes a message to all its present members at once, each of *)
(* which is then handed it in its own time.  Members join and leave,       *)
(* subscribers depart without a word, and topics stop.                     *)
(***************************************************************************)
EXTENDS Naturals, Sequences

CONSTANTS Topics, Subscribers, Messages

VARIABLES
    known,     \* the memberships ever made; i is the one at position i
    members,   \* members[t]: the memberships of topic t
    present,   \* the subscribers that have not departed
    stopped,   \* the topics that have stopped
    due,       \* due[i]: what was published to i and not yet handed to it
    got        \* got[i]: what i was handed: JOINED, messages, LEFT

topicVars == <<known, members, present, stopped, due, got>>

JOINED == "joined"
LEFT == "left"

Here(i) == known[i].subscriber \in present

Init == /\ known = <<>>
        /\ members = [t \in Topics |-> {}]
        /\ present = Subscribers
        /\ stopped = {}
        /\ due = <<>>
        /\ got = <<>>

\* A subscriber joins, and is told so unless it has departed.
Join(t, s) ==
    /\ t \notin stopped
    /\ known' = Append(known, [topic |-> t, subscriber |-> s])
    /\ members' = [members EXCEPT ![t] = @ \cup {Len(known) + 1}]
    /\ due' = Append(due, <<>>)
    /\ got' = Append(got, IF s \in present THEN <<JOINED>> ELSE <<>>)
    /\ UNCHANGED <<present, stopped>>

Publish(t, m) ==
    /\ t \notin stopped
    /\ due' = [i \in DOMAIN due |-> IF i \in members[t] /\ Here(i)
                                    THEN Append(due[i], m) ELSE due[i]]
    /\ UNCHANGED <<known, members, present, stopped, got>>

Deliver(i) ==
    /\ due[i] # <<>>
    /\ due' = [due EXCEPT ![i] = Tail(@)]
    /\ got' = [got EXCEPT ![i] = Append(@, Head(due[i]))]
    /\ UNCHANGED <<known, members, present, stopped>>

\* A member that is present leaves after it was handed everything, and is told.
Leave(t, i) ==
    /\ i \in members[t]
    /\ due[i] = <<>>
    /\ members' = [members EXCEPT ![t] = @ \ {i}]
    /\ got' = IF Here(i) THEN [got EXCEPT ![i] = Append(@, LEFT)] ELSE got
    /\ UNCHANGED <<known, present, stopped, due>>

\* Members that have departed are forgotten, in any number.
Prune(t) ==
    /\ \E forgotten \in SUBSET {i \in members[t] : ~Here(i)} :
         members' = [members EXCEPT ![t] = @ \ forgotten]
    /\ UNCHANGED <<known, present, stopped, due, got>>

\* A subscriber departs: it loses what it is due, and it may lose the last of
\* what it was handed and has not looked at.
Depart(s) ==
    /\ s \in present
    /\ present' = present \ {s}
    /\ LET mine == {i \in DOMAIN known : known[i].subscriber = s}
       IN  /\ due' = [i \in DOMAIN due |-> IF i \in mine THEN <<>> ELSE due[i]]
           /\ DOMAIN got' = DOMAIN got
           /\ \A i \in DOMAIN got :
                IF i \in mine
                THEN got'[i] \in {SubSeq(got[i], 1, n) : n \in 0 .. Len(got[i])}
                ELSE got'[i] = got[i]
    /\ UNCHANGED <<known, members, stopped>>

\* A topic stops when everything published was handed out.
Stop(t) ==
    /\ t \notin stopped
    /\ \A i \in members[t] : due[i] = <<>>
    /\ stopped' = stopped \cup {t}
    /\ members' = [members EXCEPT ![t] = {}]
    /\ UNCHANGED <<known, present, due, got>>

Next ==
    \/ \E t \in Topics :
         \/ \E s \in Subscribers : Join(t, s)
         \/ \E m \in Messages : Publish(t, m)
         \/ \E i \in members[t] : Leave(t, i)
         \/ Prune(t)
         \/ Stop(t)
    \/ \E i \in DOMAIN due : Deliver(i)
    \/ \E s \in Subscribers : Depart(s)

Spec == Init /\ [][Next]_topicVars
=============================================================================
