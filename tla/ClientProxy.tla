---------------------------- MODULE ClientProxy ----------------------------
(***************************************************************************)
(* AsyncStompClient (src/asynchronous/client.rs): the handle through which *)
(* destinations, spawned tasks and timers reach a client session.  Every   *)
(* method of it turns its arguments into a ClientEvent and sends that on   *)
(* the session's unbounded channel, here inbox[c].                         *)
(***************************************************************************)
EXTENDS Integers, Channel

CONSTANTS Clients,       \* the client sessions
          Destinations,  \* the destination ids
          SubIds,        \* the subscription ids clients choose
          Messages       \* the message bodies

VARIABLES inbox,  \* inbox[c]: the channel of ClientEvents of session c
          seen    \* seen[c]: the events session c has taken from it (history)

\* The result Err(StomperError) of a callback.  Ok(id) is the id, a positive
\* number: the uuids of the code are numbered in the order they are drawn.
Failed == 0

Subscribed(d, s, r) == [type |-> "Subscribed", dest |-> d, sub |-> s, result |-> r]
Unsubscribed(s, r) == [type |-> "Unsubscribed", sub |-> s, result |-> r]
\* The code drops the destination's subscription id (client.rs:139); the model
\* keeps it as id so that properties can tell subscriptions apart.
ServerMessage(s, i, m) == [type |-> "ServerMessage", sub |-> s, id |-> i, message |-> m]
Error == [type |-> "Error"]
Close == [type |-> "Close"]

ClientEvent ==
    [type : {"Subscribed"}, dest : Destinations, sub : SubIds, result : Nat]
    \cup [type : {"Unsubscribed"}, sub : SubIds, result : Nat]
    \cup [type : {"ServerMessage"}, sub : SubIds, id : Nat, message : Messages]
    \cup {Error, Close}

ProxyTypeOK == /\ inbox \in [Clients -> ChannelOf(ClientEvent)]
               /\ seen \in [Clients -> Seq(ClientEvent)]

ProxyInit == /\ inbox = [c \in Clients |-> NewChannel]
             /\ seen = [c \in Clients |-> <<>>]

-----------------------------------------------------------------------------
\* AsyncStompClient::send_event: an event for a session that is gone is logged
\* and dropped.
SendEvent(c, e) == inbox' = [inbox EXCEPT ![c] = Push(@, e)]

\* Subscriber::send for AsyncStompClient is an Err in that case.
Alive(c) == inbox[c].open

\* The session takes the next event from its channel.
NextEvent(c) == First(inbox[c])
TakeEvent(c) ==
    /\ inbox' = [inbox EXCEPT ![c] = Pop(@)]
    /\ seen' = [seen EXCEPT ![c] = Append(@, NextEvent(c))]

\* The session's stream of events is dropped.
DropInbox(c) == inbox' = [inbox EXCEPT ![c] = Dropped]
=============================================================================
