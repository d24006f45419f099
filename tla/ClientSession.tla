--------------------------- MODULE ClientSession ---------------------------
(***************************************************************************)
(* ClientSession (src/asynchronous/client.rs).  A session is one task that *)
(* handles one ClientEvent at a time, taken from three streams merged by   *)
(* select_all: the frames of the client, the channel behind its            *)
(* AsyncStompClient, and the timer of the server's heartbeats.  A second   *)
(* task, the heartbeat listener, waits for the client's heartbeats to stop.*)
(*                                                                         *)
(* SubscribeFrame, SendFrame and UnsubscribeFrame are the session's part   *)
(* of handling those frames; what they call on the destinations is joined  *)
(* to them by the modules that extend this one.                            *)
(***************************************************************************)
EXTENDS ClientProxy, FiniteSets

CONSTANTS Inputs,         \* what clients and connections do in this model
          MaxFrames,      \* bound: frames read from one client after CONNECT
          MaxHeartbeats   \* bound: heartbeats sent to one client

VARIABLES
    phase,    \* phase[c]: how far the task of session c has come
    active,   \* active[c]: active_subscriptions_by_client_id
    out,      \* out[c]: what was sent to client c, in order
    frames,   \* frames[c]: the number of frames read from client c
    listener  \* listener[c]: the heartbeat listener's task

sessionVars == <<phase, active, out, frames, listener>>

Phase == {"connecting", "alive", "lingering", "closed", "panicked"}
Entry == [sub : SubIds, dest : Destinations, id : Nat]

Frame == [type : {"CONNECTED", "ERROR", "HEARTBEAT"}]
         \cup [type : {"MESSAGE"}, sub : SubIds, message : Messages]
CONNECTED == [type |-> "CONNECTED"]
ERROR == [type |-> "ERROR"]
HEARTBEAT == [type |-> "HEARTBEAT"]
MESSAGE(s, m) == [type |-> "MESSAGE", sub |-> s, message |-> m]

SessionTypeOK ==
    /\ phase \in [Clients -> Phase]
    /\ active \in [Clients -> SUBSET Entry]
    /\ out \in [Clients -> Seq(Frame)]
    /\ frames \in [Clients -> Nat]
    /\ listener \in [Clients -> {"idle", "waiting", "done"}]

SessionInit ==
    /\ phase = [c \in Clients |-> "connecting"]
    /\ active = [c \in Clients |-> {}]
    /\ out = [c \in Clients |-> <<>>]
    /\ frames = [c \in Clients |-> 0]
    /\ listener = [c \in Clients |-> "idle"]

Emit(c, f) == out' = [out EXCEPT ![c] = Append(@, f)]

\* The session's state and its stream of events are dropped: after a Dead
\* (take_while), a panic of the task, or an error of the sink.
End(c, how) ==
    /\ phase' = [phase EXCEPT ![c] = how]
    /\ active' = [active EXCEPT ![c] = {}]
    /\ DropInbox(c)

-----------------------------------------------------------------------------
(* The first message.                                                      *)

\* A CONNECT that accepts STOMP 1.2, and a client the factory admits.  The
\* heartbeat listener is spawned; CONNECTED is the first event of the stream.
Connect(c) ==
    /\ phase[c] = "connecting"
    /\ phase' = [phase EXCEPT ![c] = "alive"]
    /\ listener' = [listener EXCEPT ![c] = "waiting"]
    /\ Emit(c, CONNECTED)
    /\ UNCHANGED <<active, frames, inbox, seen>>

\* Anything else, the end of the stream included: ERROR, and the end.
Reject(c) ==
    /\ "REJECT" \in Inputs
    /\ phase[c] = "connecting"
    /\ End(c, "lingering")
    /\ Emit(c, ERROR)
    /\ UNCHANGED <<frames, listener, seen>>

-----------------------------------------------------------------------------
(* Frames of the client: client_frame and handle.                          *)

Reads(c, kind) ==
    /\ phase[c] = "alive"
    /\ kind \in Inputs
    /\ frames[c] < MaxFrames
    /\ frames' = [frames EXCEPT ![c] = @ + 1]

\* Mutant: the client is told, and the session goes on.
FailWithoutClose(c) == /\ Emit(c, ERROR)
                       /\ UNCHANGED inbox

\* error(): an ERROR frame now, and a Close behind whatever is in the channel.
Fail(c) == /\ Emit(c, ERROR)
           /\ SendEvent(c, Close)

\* A second CONNECT, or bytes that are not a frame.
BadFrame(c) ==
    /\ Reads(c, "CONNECT") \/ Reads(c, "INVALID")
    /\ Fail(c)
    /\ UNCHANGED <<phase, active, listener, seen>>

\* UNSUBSCRIBE with an id that is not in the table.
UnknownUnsubscribe(c, s) ==
    /\ Reads(c, "UNSUBSCRIBE")
    /\ \A e \in active[c] : e.sub # s
    /\ Fail(c)
    /\ UNCHANGED <<phase, active, listener, seen>>

Disconnect(c) ==
    /\ Reads(c, "DISCONNECT")
    /\ End(c, "lingering")
    /\ UNCHANGED <<out, listener, seen>>

\* ABORT, ACK, BEGIN, COMMIT and NACK are todo!(); SEND without a body is an
\* unwrap of None.  Both panic in the session's task.
UnhandledFrame(c) ==
    /\ Reads(c, "TODO") \/ Reads(c, "EMPTY_SEND")
    /\ End(c, "panicked")
    /\ UNCHANGED <<out, listener, seen>>

\* The session's part of the frames that go to a destination.
SubscribeFrame(c) == /\ Reads(c, "SUBSCRIBE")
                     /\ UNCHANGED <<phase, active, out, listener>>
SendFrame(c) == /\ Reads(c, "SEND")
                /\ UNCHANGED <<phase, active, out, listener>>
UnsubscribeFrame(c, e) == /\ Reads(c, "UNSUBSCRIBE")
                          /\ e \in active[c]
                          /\ UNCHANGED <<phase, active, out, listener>>
\* The destination has stopped: the callback panics in the session's task.
UnsubscribePanic(c, e) == /\ Reads(c, "UNSUBSCRIBE")
                          /\ e \in active[c]
                          /\ End(c, "panicked")
                          /\ UNCHANGED <<out, listener, seen>>

\* The client's stream ends: Close is chained to it.
EndOfStream(c) ==
    /\ "END_OF_STREAM" \in Inputs
    /\ phase[c] = "alive"
    /\ End(c, "lingering")
    /\ UNCHANGED <<out, frames, listener, seen>>

-----------------------------------------------------------------------------
(* Events from the channel: handle_event.                                  *)

Event(c, type) == /\ phase[c] = "alive"
                  /\ Ready(inbox[c])
                  /\ NextEvent(c).type = type

\* Mutant: a failed subscription is filed like any other.
OnSubscribedFilesFailures(c) ==
    LET e == NextEvent(c)
    IN  /\ Event(c, "Subscribed")
        /\ TakeEvent(c)
        /\ active' = [active EXCEPT ![c] =
                        {x \in @ : x.sub # e.sub}
                        \cup {[sub |-> e.sub, dest |-> e.dest, id |-> e.result]}]
        /\ UNCHANGED <<phase, out, frames, listener>>

\* Mutant: the client's id and the destination's change places.
OnSubscribedSwapsIds(c) ==
    LET e == NextEvent(c)
    IN  /\ Event(c, "Subscribed")
        /\ TakeEvent(c)
        /\ active' = IF e.result = Failed THEN active
                     ELSE [active EXCEPT ![c] =
                             {x \in @ : x.sub # e.sub}
                             \cup {[sub |-> e.result, dest |-> e.dest, id |-> e.sub]}]
        /\ UNCHANGED <<phase, out, frames, listener>>

\* subscribed(): the entry is filed under the client's own id, over another
\* one that may be there.  An Err is ignored.
OnSubscribed(c) ==
    LET e == NextEvent(c)
    IN  /\ Event(c, "Subscribed")
        /\ TakeEvent(c)
        /\ active' = IF e.result = Failed THEN active
                     ELSE [active EXCEPT ![c] =
                             {x \in @ : x.sub # e.sub}
                             \cup {[sub |-> e.sub, dest |-> e.dest, id |-> e.result]}]
        /\ UNCHANGED <<phase, out, frames, listener>>

\* Mutant: HashMap::clear for HashMap::remove.
OnUnsubscribedClears(c) ==
    LET e == NextEvent(c)
    IN  /\ Event(c, "Unsubscribed")
        /\ TakeEvent(c)
        /\ active' = IF e.result = Failed THEN active ELSE [active EXCEPT ![c] = {}]
        /\ UNCHANGED <<phase, out, frames, listener>>

\* unsubscribed(): whatever is filed under the client's own id goes.
OnUnsubscribed(c) ==
    LET e == NextEvent(c)
    IN  /\ Event(c, "Unsubscribed")
        /\ TakeEvent(c)
        /\ active' = IF e.result = Failed THEN active
                     ELSE [active EXCEPT ![c] = {x \in @ : x.sub # e.sub}]
        /\ UNCHANGED <<phase, out, frames, listener>>

\* server_message(): it asks no table whether the subscription is still there.
OnServerMessage(c) ==
    /\ Event(c, "ServerMessage")
    /\ TakeEvent(c)
    /\ Emit(c, MESSAGE(NextEvent(c).sub, NextEvent(c).message))
    /\ UNCHANGED <<phase, active, frames, listener>>

OnError(c) ==
    /\ Event(c, "Error")
    /\ inbox' = [inbox EXCEPT ![c] = Push(Pop(@), Close)]
    /\ seen' = [seen EXCEPT ![c] = Append(@, Error)]
    /\ Emit(c, ERROR)
    /\ UNCHANGED <<phase, active, frames, listener>>

\* Mutant: the state stays Alive.
OnCloseGoesOn(c) ==
    /\ Event(c, "Close")
    /\ TakeEvent(c)
    /\ UNCHANGED <<phase, active, out, frames, listener>>

OnClose(c) ==
    /\ Event(c, "Close")
    /\ End(c, "lingering")
    /\ seen' = [seen EXCEPT ![c] = Append(@, Close)]
    /\ UNCHANGED <<out, frames, listener>>

HandleEvent(c) == \/ OnSubscribed(c)
                  \/ OnUnsubscribed(c)
                  \/ OnServerMessage(c)
                  \/ OnError(c)
                  \/ OnClose(c)

-----------------------------------------------------------------------------
(* Timers, and the end.                                                    *)

\* The timer of the server's heartbeats fires.
Heartbeat(c) ==
    /\ phase[c] = "alive"
    /\ Cardinality({k \in DOMAIN out[c] : out[c][k] = HEARTBEAT}) < MaxHeartbeats
    /\ Emit(c, HEARTBEAT)
    /\ UNCHANGED <<phase, active, frames, listener, inbox, seen>>

\* Mutant: the listener ends without a word.
MissHeartbeatSilently(c) ==
    /\ "MISSED_HEARTBEAT" \in Inputs
    /\ listener[c] = "waiting"
    /\ listener' = [listener EXCEPT ![c] = "done"]
    /\ UNCHANGED <<phase, active, out, frames, inbox, seen>>

\* The timer of the client's heartbeats fires, once; the listener does not
\* know whether the session still lives.
MissHeartbeat(c) ==
    /\ "MISSED_HEARTBEAT" \in Inputs
    /\ listener[c] = "waiting"
    /\ listener' = [listener EXCEPT ![c] = "done"]
    /\ SendEvent(c, Error)
    /\ UNCHANGED <<phase, active, out, frames, seen>>

\* Mutant: somebody keeps the session's stream after forward() has given up.
SinkFailsKeepsStream(c) ==
    /\ "SINK_ERROR" \in Inputs
    /\ phase[c] \in {"alive", "lingering"}
    /\ phase' = [phase EXCEPT ![c] = "closed"]
    /\ active' = [active EXCEPT ![c] = {}]
    /\ UNCHANGED <<out, frames, listener, inbox, seen>>

\* forward() gives up at the first error of the sink.
SinkFails(c) ==
    /\ "SINK_ERROR" \in Inputs
    /\ phase[c] \in {"alive", "lingering"}
    /\ End(c, "closed")
    /\ UNCHANGED <<out, frames, listener, seen>>

\* LINGER_TIME has passed: the stream ends, and forward() closes the sink.
LingerEnds(c) ==
    /\ phase[c] = "lingering"
    /\ phase' = [phase EXCEPT ![c] = "closed"]
    /\ UNCHANGED <<active, out, frames, listener, inbox, seen>>

\* The steps of session c in which no destination takes part.
SessionStep(c) ==
    \/ Connect(c) \/ Reject(c)
    \/ BadFrame(c)
    \/ \E s \in SubIds : UnknownUnsubscribe(c, s)
    \/ Disconnect(c)
    \/ UnhandledFrame(c)
    \/ EndOfStream(c)
    \/ HandleEvent(c)
    \/ Heartbeat(c)
    \/ MissHeartbeat(c)
    \/ SinkFails(c)
    \/ LingerEnds(c)

\* Justified by tokio, which runs every task that is ready; by select_all,
\* which polls every stream that is ready in turn, so that a client that keeps
\* sending cannot starve the channel; and by the linger timer.  The sink is
\* assumed to go on accepting or to fail, never to block for ever.
SessionFairness == \A c \in Clients : WF_<<inbox, seen, sessionVars>>(HandleEvent(c))
                                      /\ WF_<<inbox, seen, sessionVars>>(LingerEnds(c))

-----------------------------------------------------------------------------
(* What a session owes its client and its destinations.                    *)

Ended(c) == phase[c] \in {"closed", "panicked"}
SentError(c) == \E k \in DOMAIN out[c] : out[c][k] = ERROR

\* A session that has sent ERROR and goes on has a Close in its channel: no
\* handler of error() may leave it open (client.rs:328-334), not even when the
\* channel is shared with every destination, or several errors follow.
ErrorMeansClosing ==
    \A c \in Clients : phase[c] = "alive" /\ SentError(c) => Close \in Pending(inbox[c])

\* Destinations learn from the channel alone that a session is gone: it is
\* closed in every way a session can end (Dead, panic, error of the sink), and
\* never before, nor is it ever opened again.
ChannelClosedWithSession ==
    \A c \in Clients : Alive(c) <=> phase[c] \in {"connecting", "alive"}

\* ERROR is followed by the end of the session, however much is queued in
\* front of the Close and whatever the client goes on sending.
ErrorEndsSession == \A c \in Clients : SentError(c) ~> Ended(c)

\* A client whose heartbeats stop loses its session: the listener's Error is
\* handled, then the Close that follows from it, then the linger time passes.
MissedHeartbeatEndsSession ==
    \A c \in Clients : (listener[c] = "done") ~> Ended(c)
=============================================================================
