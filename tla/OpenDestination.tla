-------------------------- MODULE OpenDestination --------------------------
(***************************************************************************)
(* Destinations among arbitrary callers and subscribers.  Anybody may call *)
(* any handle at any time, on behalf of a session that has ended, too; who *)
(* lives and knows a subscription id of its own may unsubscribe it, and    *)
(* may do so more than once, or after it is gone.                          *)
(***************************************************************************)
EXTENDS InMemDestination

CONSTANT MaxCalls   \* bound: calls queued or handled per destination, and
                    \* events a session may have got when it subscribes

vars == <<destVars, proxyVars>>

MayCall(d) == /\ backend[d] # "absent"
              /\ Len(log[d]) + Len(actions[d].queue) < MaxCalls

handleUnchanged == UNCHANGED <<backend, issued, subscriptions, todo, dead, log>>

CallSubscribe(d, c, s) ==
    /\ MayCall(d) /\ Len(Told(c)) < MaxCalls
    /\ Subscribe(d, c, s)
    /\ handleUnchanged /\ UNCHANGED seen

CallUnsubscribe(d, c, i) ==
    /\ MayCall(d) /\ Alive(c) /\ issued[i].client = c /\ issued[i].dest = d
    /\ Unsubscribe(d, c, i)
    /\ handleUnchanged /\ UNCHANGED proxyVars

CallSend(d, m) ==
    /\ MayCall(d) /\ Send(d, m)
    /\ handleUnchanged /\ UNCHANGED proxyVars

CallClose(d) ==
    /\ MayCall(d) /\ CloseHandle(d)
    /\ handleUnchanged /\ UNCHANGED proxyVars

Take(c) == Ready(inbox[c]) /\ TakeEvent(c) /\ UNCHANGED destVars

\* A session ends, or panics on UnsubscribePanics.
Leave(c) == Alive(c) /\ DropInbox(c) /\ UNCHANGED <<destVars, seen>>

DestEnvironment ==
    \/ \E d \in Destinations :
         \/ Create(d) /\ UNCHANGED proxyVars
         \/ \E c \in Clients, s \in SubIds : CallSubscribe(d, c, s)
         \/ \E c \in Clients, i \in Ids : CallUnsubscribe(d, c, i)
         \/ \E m \in Messages : CallSend(d, m)
         \/ CallClose(d)
    \/ \E c \in Clients : Take(c) \/ Leave(c)

Init == ProxyInit /\ DestInit
Next == DestEnvironment \/ \E d \in Destinations : Backend(d)
Spec == Init /\ [][Next]_vars

TypeOK == ProxyTypeOK /\ DestTypeOK

-----------------------------------------------------------------------------
(* What every step relies on.                                              *)

\* The ids in the HashMap of a destination are of subscriptions to it; the loop
\* of send goes over those, and over none when it is done.
LoopIsSound ==
    \A d \in Destinations :
        /\ \A i \in subscriptions[d] : issued[i].dest = d
        /\ todo[d] \subseteq subscriptions[d]
        /\ backend[d] # "sending" => todo[d] = {}

\* Who asks to unsubscribe asks for a subscription of its own.
RequestsAreOwn ==
    \A d \in Destinations : \A a \in Pending(actions[d]) : a.type = "Unsubscribe" =>
        a.id \in Ids /\ issued[a.id].client = a.client /\ issued[a.id].dest = d

\* Nobody is told of a subscription that was never made.
Names(e, ids) ==
    /\ e.type \in {"Subscribed", "Unsubscribed"} => e.result \in ids \cup {Failed}
    /\ e.type = "ServerMessage" => e.id \in ids
ToldOfIssued == \A c \in Clients : \A k \in DOMAIN Told(c) : Names(Told(c)[k], Ids)

\* What the steps of a destination rely on, but for its log.
Core ==
    /\ TypeOK
    /\ SendInHand
    /\ DeadAreGone
    /\ LoopIsSound
    /\ RequestsAreOwn
    /\ ToldOfIssued

\* The log of a destination is of subscriptions to it, each of which joined
\* once; those in the HashMap have not left, and of those that have not left
\* only the dead are missing from it.
LogIsSound ==
    /\ \A d \in Destinations : \A k \in DOMAIN log[d] :
          log[d][k].type # "Sent" => log[d][k].id \in Ids /\ issued[log[d][k].id].dest = d
    /\ \A i \in Ids :
          LET d == issued[i].dest
          IN  /\ JoinsOnce(log[d], i)
              /\ i \in subscriptions[d] => ~LeavesIn(log[d], i)
              /\ ~LeavesIn(log[d], i) /\ ~Stopped(d) /\ Alive(issued[i].client) =>
                   i \in subscriptions[d]

\* The last that is due to those the loop of send has yet to reach is the
\* message it is about.
LoopOwesMessage ==
    \A d \in Destinations : \A i \in todo[d] :
        /\ Due(i) # <<>>
        /\ Due(i)[Len(Due(i))] = ServerMessage(issued[i].sub, i, First(actions[d]).message)

LogInv ==
    /\ Core
    /\ LogIsSound
    /\ LoopOwesMessage
    /\ SubscriptionFollowsLog
=============================================================================
