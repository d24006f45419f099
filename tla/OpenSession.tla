---------------------------- MODULE OpenSession ----------------------------
(***************************************************************************)
(* Client sessions among arbitrary destinations: these take whatever a     *)
(* session asks of them, and send a session they know any callback and any *)
(* message at any time.  A destination that has stopped makes an           *)
(* UNSUBSCRIBE panic.                                                      *)
(***************************************************************************)
EXTENDS ClientSession

CONSTANT MaxEvents   \* bound: events destinations send to one session

vars == <<inbox, seen, sessionVars>>

ToDestination(c) ==
    /\ \/ SubscribeFrame(c)
       \/ SendFrame(c)
       \/ \E e \in active[c] : UnsubscribeFrame(c, e)
    /\ UNCHANGED <<inbox, seen>>

\* The events of a session that destinations sent.
FromDestination(c) == {k \in DOMAIN (seen[c] \o inbox[c].queue) :
                         (seen[c] \o inbox[c].queue)[k] \notin {Error, Close}}

Callback(c) ==
    /\ phase[c] # "connecting"
    /\ Cardinality(FromDestination(c)) < MaxEvents
    /\ \E s \in SubIds, r \in 0 .. MaxEvents :
         \/ \E d \in Destinations : SendEvent(c, Subscribed(d, s, r))
         \/ r # Failed /\ SendEvent(c, Unsubscribed(s, r))
         \/ r # Failed /\ \E m \in Messages : SendEvent(c, ServerMessage(s, r, m))
    /\ UNCHANGED <<seen, sessionVars>>

Next == \E c \in Clients :
    \/ SessionStep(c)
    \/ ToDestination(c)
    \/ \E e \in active[c] : UnsubscribePanic(c, e)
    \/ Callback(c)

Init == ProxyInit /\ SessionInit
Spec == Init /\ [][Next]_vars /\ SessionFairness

TypeOK == ProxyTypeOK /\ SessionTypeOK
=============================================================================
