-------------------------- MODULE WebSocketBridge --------------------------
(***************************************************************************)
(* src/bin/sample_server.rs: client sessions behind WebSockets.  What a    *)
(* session writes goes through a sink, which holds the last frame back     *)
(* until the next one or a flush, and a channel to the response processor, *)
(* a task that owns the sending half of the socket.  What comes from there *)
(* is handled message by message while the session reads: STOMP frames are *)
(* passed on, a Ping puts a Pong into the same channel, and a Close goes   *)
(* there too and is an error for the session.                              *)
(*                                                                         *)
(* The session reads and writes; the bridge adds to each action of         *)
(* ClientSession what that does to channel and socket.                     *)
(***************************************************************************)
EXTENDS OpenSession

CONSTANTS Utf8,       \* the message bodies that are UTF-8
          MaxPings    \* bound: pings read from one client

ASSUME Utf8Assumption == Utf8 \subseteq Messages

VARIABLES
    held,       \* held[c]: the frame the sink of session c holds, if any
    wire,       \* wire[c]: the channel from ws_tx to ws_rx
    processor,  \* processor[c]: the response processor's task
    socket,     \* socket[c]: the socket, as the session reads it
    broken,     \* broken[c]: whether the sink has failed or panicked
    sent,       \* sent[c]: what was written to the socket (history)
    pings,      \* pings[c]: the pings that were read (history)
    failed      \* failed[c]: whether writing to the socket failed (history)

bridgeVars == <<held, wire, processor, socket, broken, sent, pings, failed>>
servedVars == <<vars, bridgeVars>>

Text(f) == [type |-> "Text", frame |-> f]
Pong == [type |-> "Pong"]
WsClose == [type |-> "Close"]
TextMessage == [type : {"Text"}, frame : Frame]
WsMessage == TextMessage \cup {Pong, WsClose}
FrameOrNone == {<<>>} \cup {<<f>> : f \in Frame}

BridgeTypeOK ==
    /\ held \in [Clients -> FrameOrNone]
    /\ wire \in [Clients -> ChannelOf(WsMessage)]
    /\ processor \in [Clients -> {"running", "done"}]
    /\ socket \in [Clients -> {"open", "closing", "closed", "ended"}]
    /\ broken \in [Clients -> BOOLEAN]
    /\ sent \in [Clients -> Seq(WsMessage)]
    /\ pings \in [Clients -> Nat]
    /\ failed \in [Clients -> BOOLEAN]

\* Mutant: pong_channel is not in the stream of bytes, but lives as long as the
\* connection.
SendersKeepPong(c) == IF phase[c] = "closed" THEN {"pong_channel"}
                      ELSE {"pong_channel", "ws_tx"}

\* The clones of the sender: pong_channel is in the session's stream of bytes,
\* and is dropped with its stream of events; the other is in its sink.
Senders(c) == CASE phase[c] \in {"connecting", "alive"} -> {"pong_channel", "ws_tx"}
                [] phase[c] = "lingering" -> {"ws_tx"}
                [] OTHER -> {}

-----------------------------------------------------------------------------
(* The session's side.                                                     *)

\* String::from_utf8(..).unwrap() panics on a body that is not UTF-8.
Encodes(f) == f.type = "MESSAGE" => f.message \in Utf8

\* Mutant: the frame goes to the channel past the sink's with().
WrittenPastSink(c) ==
    LET f == out'[c][Len(out'[c])]
    IN  IF out' = out THEN UNCHANGED <<held, wire, broken>>
        ELSE wire' = [wire EXCEPT ![c] = Push(@, f)] /\ UNCHANGED <<held, broken>>

\* With: the frame that it holds goes into the channel as a text message.
Passed(c) == IF held[c] = <<>> THEN wire
             ELSE [wire EXCEPT ![c] = Push(@, Text(Head(held[c])))]

\* What the session wrote in this step goes to the sink, which passes on what
\* it holds (poll_ready) and then holds the new frame (start_send); forward()
\* goes on to poll the session.  A frame that is not UTF-8, or finds that the
\* processor is gone, is the sink's last; but a sink that held none may not
\* look for the processor before the next frame or flush.
Written(c) ==
    LET f == out'[c][Len(out'[c])]
    IN  IF out' = out THEN UNCHANGED <<held, wire, broken>>
        ELSE /\ wire' = Passed(c)
             /\ held' = [held EXCEPT ![c] = <<f>>]
             /\ \/ /\ Encodes(f) /\ (wire[c].open \/ held[c] = <<>>)
                   /\ UNCHANGED broken
                \/ /\ ~(Encodes(f) /\ wire[c].open)
                   /\ broken' = [broken EXCEPT ![c] = TRUE]

\* The session is not in the middle of an error or a Close.
Steady(c) == ~broken[c] /\ socket[c] # "closing"
Reading(c) == Steady(c) /\ socket[c] = "open"

\* forward() flushes its sink when the session has nothing to write.
Flush(c) ==
    /\ Steady(c)
    /\ phase[c] \in {"alive", "lingering"}
    /\ held[c] # <<>>
    /\ IF wire[c].open
       THEN /\ wire' = Passed(c)
            /\ held' = [held EXCEPT ![c] = <<>>]
            /\ UNCHANGED broken
       ELSE /\ broken' = [broken EXCEPT ![c] = TRUE]
            /\ UNCHANGED <<held, wire>>
    /\ UNCHANGED <<vars, processor, socket, sent, pings, failed>>

others == <<processor, socket, sent, pings, failed>>

\* Message::Text and Message::Binary: a STOMP frame, or the first one.
ReadFrame(c) ==
    /\ Reading(c)
    /\ \/ Connect(c) \/ Reject(c)
       \/ BadFrame(c)
       \/ \E s \in SubIds : UnknownUnsubscribe(c, s)
       \/ Disconnect(c)
       \/ UnhandledFrame(c)
       \/ ToDestination(c)
       \/ \E e \in active[c] : UnsubscribePanic(c, e)
    /\ Written(c)
    /\ UNCHANGED others

\* An Err in the stream of bytes is an Err for validate_and_connect, or a
\* ClientFrame(Err) for the session.
ReadError(c) == Reject(c) \/ BadFrame(c)

\* Mutant: a ping is read, and no Pong comes of it.
ReadPingDropsPong(c) ==
    /\ Reading(c)
    /\ pings[c] < MaxPings
    /\ phase[c] \in {"connecting", "alive"}
    /\ pings' = [pings EXCEPT ![c] = @ + 1]
    /\ UNCHANGED <<vars, held, wire, broken, processor, socket, sent, failed>>

\* Message::Ping: a Pong; without processor it is an error.
ReadPing(c) ==
    /\ Reading(c)
    /\ pings[c] < MaxPings
    /\ phase[c] \in {"connecting", "alive"}
    /\ pings' = [pings EXCEPT ![c] = @ + 1]
    /\ IF wire[c].open
       THEN /\ wire' = [wire EXCEPT ![c] = Push(@, Pong)]
            /\ UNCHANGED <<vars, held, broken>>
       ELSE ReadError(c) /\ Written(c)
    /\ UNCHANGED <<processor, socket, sent, failed>>

\* Message::Close: it is forwarded, so that the processor stops, ...
ReadClose(c) ==
    /\ Reading(c)
    /\ phase[c] = "connecting" \/ (phase[c] = "alive" /\ frames[c] < MaxFrames)
    /\ wire' = [wire EXCEPT ![c] = Push(@, WsClose)]
    /\ socket' = [socket EXCEPT ![c] = "closing"]
    /\ UNCHANGED <<vars, held, processor, broken, sent, pings, failed>>

\* ... and is an Err for the session, whose ERROR frame comes behind the Close,
\* or to a processor that is already gone.
CloseIsError(c) ==
    /\ socket[c] = "closing"
    /\ ReadError(c)
    /\ Written(c)
    /\ socket' = [socket EXCEPT ![c] = "closed"]
    /\ UNCHANGED <<processor, sent, pings, failed>>

\* An error of the socket, which ends the stream too.
ReadFails(c) ==
    /\ Reading(c)
    /\ ReadError(c)
    /\ Written(c)
    /\ socket' = [socket EXCEPT ![c] = "ended"]
    /\ UNCHANGED <<processor, sent, pings, failed>>

\* The stream of messages ends, after a Close or without.
ReadEnd(c) ==
    /\ Steady(c)
    /\ EndOfStream(c) \/ Reject(c)
    /\ Written(c)
    /\ socket' = [socket EXCEPT ![c] = IF @ = "open" THEN "ended" ELSE @]
    /\ UNCHANGED <<processor, sent, pings, failed>>

\* Events, and the server's heartbeats.
ServedEvent(c) == Steady(c) /\ HandleEvent(c) /\ Written(c) /\ UNCHANGED others
ServedHeartbeat(c) == Steady(c) /\ Heartbeat(c) /\ Written(c) /\ UNCHANGED others

\* What ends the session's task ends the sink, and what it holds is lost.
SinkGivesUp(c) == broken[c] /\ SinkFails(c) /\ UNCHANGED bridgeVars

\* forward() flushes the sink before it waits for the linger time, and in
\* closing it.
ServedLingerEnds(c) ==
    Steady(c) /\ held[c] = <<>> /\ LingerEnds(c) /\ UNCHANGED bridgeVars
FromOthers(c) == (MissHeartbeat(c) \/ Callback(c)) /\ UNCHANGED bridgeVars

-----------------------------------------------------------------------------
(* The response processor.                                                 *)

Processing(c) == processor[c] = "running" /\ Ready(wire[c]) /\ First(wire[c]) # WsClose

\* forward(socket_tx)
ForwardMessage(c) ==
    /\ Processing(c)
    /\ sent' = [sent EXCEPT ![c] = Append(@, First(wire[c]))]
    /\ wire' = [wire EXCEPT ![c] = Pop(@)]
    /\ UNCHANGED <<vars, held, processor, socket, broken, pings, failed>>

\* The receiver goes with the processor, and what is queued with it.
ProcessorEnds(c) ==
    /\ processor' = [processor EXCEPT ![c] = "done"]
    /\ wire' = [wire EXCEPT ![c] = Dropped]
    /\ UNCHANGED <<vars, held, socket, broken, sent, pings>>

\* forward() gives up at the first error of the socket.
WriteFails(c) == /\ Processing(c)
                 /\ ProcessorEnds(c)
                 /\ failed' = [failed EXCEPT ![c] = TRUE]

\* Mutant: the processor is aborted with the session.
ProcessorAborted(c) ==
    /\ processor[c] = "running"
    /\ \/ Ready(wire[c]) /\ First(wire[c]) = WsClose
       \/ Senders(c) = {}
    /\ ProcessorEnds(c)
    /\ UNCHANGED failed

\* take_while() meets a Close, or all senders are gone.
ProcessorStops(c) ==
    /\ processor[c] = "running"
    /\ \/ Ready(wire[c]) /\ First(wire[c]) = WsClose
       \/ ~Ready(wire[c]) /\ Senders(c) = {}
    /\ ProcessorEnds(c)
    /\ UNCHANGED failed

Processor(c) == ForwardMessage(c) \/ WriteFails(c) \/ ProcessorStops(c)

-----------------------------------------------------------------------------
BridgeInit ==
    /\ Init
    /\ held = [c \in Clients |-> <<>>]
    /\ wire = [c \in Clients |-> NewChannel]
    /\ processor = [c \in Clients |-> "running"]
    /\ socket = [c \in Clients |-> "open"]
    /\ broken = [c \in Clients |-> FALSE]
    /\ sent = [c \in Clients |-> <<>>]
    /\ pings = [c \in Clients |-> 0]
    /\ failed = [c \in Clients |-> FALSE]

BridgeNext == \E c \in Clients :
    \/ ReadFrame(c) \/ ReadPing(c) \/ ReadFails(c) \/ ReadEnd(c)
    \/ ReadClose(c) \/ CloseIsError(c)
    \/ ServedEvent(c) \/ ServedHeartbeat(c)
    \/ Flush(c) \/ SinkGivesUp(c) \/ ServedLingerEnds(c)
    \/ FromOthers(c)
    \/ Processor(c)

\* tokio runs both tasks; a session that has events handles them, and flushes
\* when it has none, or when its budget for one poll is used up; a stream that
\* has ended is polled once more.
BridgeSpec ==
    /\ BridgeInit /\ [][BridgeNext]_servedVars
    /\ \A c \in Clients : /\ WF_servedVars(Processor(c))
                          /\ WF_servedVars(ServedEvent(c))
                          /\ WF_servedVars(CloseIsError(c))
                          /\ WF_servedVars(Flush(c))
                          /\ WF_servedVars(SinkGivesUp(c))
                          /\ WF_servedVars(ServedLingerEnds(c))
                          /\ WF_servedVars(socket[c] # "open" /\ ReadEnd(c))

-----------------------------------------------------------------------------
(* What the bridge owes the session and the client.                        *)

Texts(messages) == LET texts == Selected(messages, TextMessage)
                   IN  [k \in DOMAIN texts |-> texts[k].frame]
Over(c) == Ended(c) /\ processor[c] = "done"

\* The frames in out[c] that the client has not got.
Missing(c) == Len(out[c]) - Len(Texts(sent[c]))

\* The client gets the frames that its session wrote, in that order and
\* without gaps, and all of them, the last ERROR included, when the connection
\* ends without the client's doing: although the sink holds each of them back,
\* session and processor are two tasks, and pongs share their channel.  Only a
\* session whose task panics may keep the last one (sample_server.rs:113-136).
FramesAreDelivered ==
    \A c \in Clients :
        /\ Texts(sent[c]) = SubSeq(out[c], 1, Len(Texts(sent[c])))
        /\ Over(c) /\ socket[c] \in {"open", "ended"} /\ ~failed[c]
             => Missing(c) <= IF phase[c] = "panicked" \/ broken[c] THEN 1 ELSE 0

\* A ping is answered, unless the processor has ended (sample_server.rs:54-60).
PingIsAnswered ==
    \A c \in Clients : \A n \in 1 .. MaxPings :
        (pings[c] = n) ~> \/ Len(SelectSeq(sent[c], LAMBDA m : m = Pong)) >= n
                          \/ processor[c] = "done"

\* When the session has ended, however, or the client has closed, the
\* connection ends: the processor must not wait for a sender that nobody uses
\* any more (sample_server.rs:98, 144-150).
ConnectionEnds ==
    \A c \in Clients : (Ended(c) \/ socket[c] # "open") ~> Over(c)
=============================================================================
