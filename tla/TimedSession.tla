---------------------------- MODULE TimedSession ----------------------------
(***************************************************************************)
(* Client sessions with their two timers (src/asynchronous/client.rs).     *)
(* The server's timer is one of the streams that the session's task        *)
(* selects from, and makes it send a heartbeat; messages to the client     *)
(* reset it.  The client's timer belongs to the heartbeat listener, a task *)
(* that awaits one emission; whatever the client sends resets it.  The     *)
(* session holds both resetters and drops them when it ends.               *)
(*                                                                         *)
(* What a session does otherwise is in ClientSession: here every action of *)
(* it is joined with what it does to the timers.                           *)
(***************************************************************************)
EXTENDS OpenSession, ResettableTimer

CONSTANTS Expected,     \* the heart-beat intervals clients expect of the server
          Supplied,     \* the intervals they promise for their own heartbeats
          Word,         \* the number of values of a u32
          Prompt,       \* whether the machine is prompt, as in OpenTimer
          MaxCommands   \* bound: commands in a channel

VARIABLES
    wanted,     \* wanted[c]: the heart-beat header of the CONNECT frame
    unread,     \* unread[c]: ticks since something came from client c (history)
    unwritten,  \* unwritten[c]: ticks since client c was sent something (history)
    punctual    \* punctual[c]: whether client c has kept its promise (history)

clocks == <<unread, unwritten, punctual>>
timedVars == <<vars, timerVars, wanted, clocks>>

Server(c) == <<"server", c>>   \* the timer of the server's heartbeats
Client(c) == <<"client", c>>   \* the timer of the client's heartbeats
TimersOf(c) == {Server(c), Client(c)}
SessionTimers == {"server", "client"} \X Clients
ASSUME TimersAssumption == Timers = SessionTimers

BufferPercent == 20
\* supplied * (HEARTBEAT_BUFFER_PERCENT + 100) / 100, in u32.  The product
\* wraps in a release build; a debug build would panic in the session's task.
Buffered(supplied) == ((supplied * (BufferPercent + 100)) % Word) \div 100

ASSUME IntervalsAssumption ==
    /\ Word \in Nat
    /\ Expected \subseteq Periods
    /\ Supplied \subseteq Nat /\ \A s \in Supplied : Buffered(s) \in Periods
    /\ \E n \in Periods : \A k \in Periods : k <= n

Oldest == (CHOOSE n \in Periods : \A k \in Periods : k <= n) + 1
Older(age) == IF age < Oldest THEN age + 1 ELSE age

-----------------------------------------------------------------------------
\* What a step of session c does to its timers: it resets those in resets,
\* and if it is the last one, the resetters and the server's stream go.
\* Err(..) of the client's resetter is logged, that of the server's would be a
\* panic: see ServerResetSucceeds.
WithTimers(c, resets) ==
    LET sent == [t \in resets |-> Reset]
    IN  /\ \A t \in resets : Len(commands[t].queue) < MaxCommands
        /\ stream[Server(c)] # "initialising"
        /\ IF phase'[c] = "alive" THEN OwnersStep(sent, {}, {})
           ELSE OwnersStep(sent, TimersOf(c), {Server(c)})
        /\ UNCHANGED wanted

\* What the clocks see of a step of session c.
Noted(c, heard) ==
    /\ unread' = IF heard THEN [unread EXCEPT ![c] = 0] ELSE unread
    /\ unwritten' = IF out' = out THEN unwritten ELSE [unwritten EXCEPT ![c] = 0]
    /\ UNCHANGED punctual

\* Mutant: the client's interval and the server's change places.
TimedConnectSwaps(c) ==
    \E expected \in Expected, supplied \in Supplied :
        /\ Connect(c)
        /\ CreateTimers([t \in TimersOf(c) |->
                           IF t = Server(c) THEN Buffered(supplied) ELSE expected])
        /\ wanted' = [wanted EXCEPT ![c] = [expected |-> expected, supplied |-> supplied]]
        /\ Noted(c, TRUE)

\* An interval of 0 makes a timer without period, by ResettableTimer::default.
TimedConnect(c) ==
    \E expected \in Expected, supplied \in Supplied :
        /\ Connect(c)
        /\ CreateTimers([t \in TimersOf(c) |->
                           IF t = Server(c) THEN expected ELSE Buffered(supplied)])
        /\ wanted' = [wanted EXCEPT ![c] = [expected |-> expected, supplied |-> supplied]]
        /\ Noted(c, TRUE)

TimedReject(c) == /\ Reject(c)
                  /\ Noted(c, TRUE)
                  /\ UNCHANGED <<timerVars, wanted>>

\* ClientEvent::ClientFrame: client_message_received, then the frame, whatever
\* comes of it.
TimedFrame(c) ==
    /\ \/ BadFrame(c)
       \/ \E s \in SubIds : UnknownUnsubscribe(c, s)
       \/ Disconnect(c)
       \/ UnhandledFrame(c)
       \/ ToDestination(c)
       \/ \E e \in active[c] : UnsubscribePanic(c, e)
    /\ WithTimers(c, {Client(c)})
    /\ Noted(c, TRUE)

\* Mutant: a heartbeat is no message.
ClientHeartbeatIgnored(c) ==
    /\ "HEARTBEAT" \in Inputs
    /\ phase[c] = "alive"
    /\ UNCHANGED vars
    /\ WithTimers(c, {})
    /\ Noted(c, TRUE)

\* ClientEvent::ClientHeartbeat.
ClientHeartbeat(c) ==
    /\ "HEARTBEAT" \in Inputs
    /\ phase[c] = "alive"
    /\ UNCHANGED vars
    /\ WithTimers(c, {Client(c)})
    /\ Noted(c, TRUE)

\* Mutant: the other resetter.
TimedServerMessageResetsClient(c) ==
    /\ OnServerMessage(c)
    /\ WithTimers(c, {Client(c)})
    /\ Noted(c, FALSE)

\* ClientEvent::ServerMessage: a message is as good as a heartbeat.
TimedServerMessage(c) ==
    /\ OnServerMessage(c)
    /\ WithTimers(c, {Server(c)})
    /\ Noted(c, FALSE)

\* The other events; ERROR and CONNECTED do not reset the server's timer.
TimedEvent(c) ==
    \/ TimedServerMessage(c)
    \/ /\ OnSubscribed(c) \/ OnUnsubscribed(c) \/ OnError(c) \/ OnClose(c)
       /\ WithTimers(c, {})
       /\ Noted(c, FALSE)

\* The session ends by itself, or its connection ends it.
TimedEnd(c) ==
    /\ EndOfStream(c) \/ (phase[c] = "alive" /\ SinkFails(c))
    /\ WithTimers(c, {})
    /\ Noted(c, FALSE)

\* What comes after the end no longer concerns the timers.
TimedAfterEnd(c) ==
    /\ LingerEnds(c) \/ (phase[c] = "lingering" /\ SinkFails(c))
    /\ UNCHANGED <<timerVars, wanted, clocks>>

\* ClientEvent::Heartbeat, when the server's timer emits.
TimedHeartbeat(c) ==
    /\ Heartbeat(c)
    /\ PollExistingTask(Server(c))
    /\ Noted(c, FALSE)
    /\ UNCHANGED wanted

\* The first poll of a timer, by the session or by the listener.
FirstPoll(c) ==
    /\ \E t \in TimersOf(c) :
         \/ (t = Server(c) => phase[c] = "alive") /\ Initialise(t)
         \/ FirstPollPending(t)
         \/ t = Server(c) /\ FirstPollReady(t)
    /\ UNCHANGED <<vars, wanted, clocks>>

\* The listener: timer.next(), or its end, is a missed heartbeat; it drops the
\* timer when it returns.
TimedMiss(c) ==
    /\ MissHeartbeat(c)
    /\ NextAndDrop(Client(c))
    /\ UNCHANGED <<wanted, clocks>>

TimedTask(t) == TaskStep(t) /\ UNCHANGED <<vars, wanted, clocks>>

TimedCallback(c) == Callback(c) /\ UNCHANGED <<timerVars, wanted, clocks>>

\* A prompt machine has nothing left to do when time passes.
Busy(c) ==
    \/ \E t \in TimersOf(c) : TaskReady(t)
    \/ phase[c] = "alive" /\ Ready(inbox[c])
    \/ phase[c] = "alive" /\ (stream[Server(c)] = "unpolled" \/ Emits(Server(c)))
    \/ stream[Server(c)] = "initialising"
    \/ stream[Client(c)] \in {"unpolled", "initialising"} \/ Emits(Client(c))

Tick ==
    /\ Prompt => \A c \in Clients : ~Busy(c)
    /\ Elapse
    /\ unread' = [c \in Clients |-> Older(unread[c])]
    /\ unwritten' = [c \in Clients |-> Older(unwritten[c])]
    /\ punctual' = [c \in Clients |->
         punctual[c] /\ (phase[c] = "connecting" \/ unread'[c] <= wanted[c].supplied)]
    /\ UNCHANGED <<vars, wanted>>

TimedInit ==
    /\ Init /\ TimerInit
    /\ wanted = [c \in Clients |-> [expected |-> 0, supplied |-> 0]]
    /\ unread = [c \in Clients |-> 0]
    /\ unwritten = [c \in Clients |-> 0]
    /\ punctual = [c \in Clients |-> TRUE]

TimedNext ==
    \/ \E c \in Clients :
         \/ TimedConnect(c) \/ TimedReject(c)
         \/ TimedFrame(c) \/ ClientHeartbeat(c)
         \/ TimedEvent(c)
         \/ TimedEnd(c) \/ TimedAfterEnd(c)
         \/ TimedHeartbeat(c) \/ FirstPoll(c) \/ TimedMiss(c)
         \/ TimedCallback(c)
    \/ \E t \in Timers : TimedTask(t)
    \/ Tick

TimedSpec == TimedInit /\ [][TimedNext]_timedVars

\* tokio runs every task that is ready, and time passes.
TimedFairSpec ==
    /\ TimedSpec
    /\ WF_timedVars(Tick)
    /\ \A t \in Timers : WF_timedVars(TimedTask(t))
    /\ \A c \in Clients : /\ WF_timedVars(TimedEvent(c))
                          /\ WF_timedVars(FirstPoll(c))
                          /\ WF_timedVars(TimedMiss(c))

-----------------------------------------------------------------------------
(* What the timers are for.                                                *)

\* The server keeps the interval it agreed to (client.rs:545-551): no client
\* that expects heartbeats waits longer for the next frame or heartbeat,
\* whichever of them come in between and reset the timer.
ServerKeepsPromise ==
    \A c \in Clients : phase[c] = "alive" /\ wanted[c].expected > 0
                         => unwritten[c] <= wanted[c].expected

\* A client that keeps its own interval is never dropped for a missed
\* heartbeat (client.rs:566-573), though its resets go through a channel to a
\* task that may just be expiring.  An interval below 5 ms is rounded down to
\* one without buffer, and is left out.
HasBuffer(supplied) == supplied * BufferPercent >= 100
PunctualClientIsKept ==
    \A c \in Clients : listener[c] = "done" /\ HasBuffer(wanted[c].supplied) => ~punctual[c]

\* A client that is silent for longer than its interval and the buffer has
\* lost its session, although the timer, the listener and the session each
\* have to pass that on to the next (client.rs:600-613, 386).
SilentClientIsDropped ==
    \A c \in Clients : phase[c] = "alive" /\ wanted[c].supplied > 0
                         => unread[c] <= Buffered(wanted[c].supplied)

\* On a prompt machine no task of a client's timer runs once its listener has
\* ended (client.rs:604-611): the one task that the drop aborts is the successor
\* which the task that fired has spawned, and that was the last of the chain.
ListenerLeavesNoTask ==
    \A c \in Clients : listener[c] = "done" => task[Client(c)] \in {"aborted", "none"}

\* The expect behind a message to the client (client.rs:375-377) does not fail:
\* the server's timer listens as long as the session lives, also when its
\* stream has ended at the first poll.
ServerResetSucceeds ==
    \A c \in Clients : phase[c] = "alive" => CanCommand(Server(c))

\* On any machine, a client that promised heartbeats loses its session unless
\* it sends something now and then, or the session ends otherwise.
SilenceEndsSession ==
    \A c \in Clients :
        (phase[c] = "alive" /\ period[Client(c)] > 0)
            ~> (phase[c] # "alive" \/ unread[c] = 0)

\* The listener ends some time after its session (client.rs:600), for its
\* timer goes on without a resetter, if it has a period.
ListenerEnds ==
    \A c \in Clients :
        (Ended(c) /\ listener[c] = "waiting" /\ period[Client(c)] > 0)
            ~> (listener[c] = "done")
=============================================================================
