# A TLA+ model of little-stomper

little-stomper is a STOMP 1.2 message broker as a Rust library: client sessions,
in-memory destinations, the map of destinations they share and the timers of
their heartbeats, all of them tokio tasks that talk through unbounded channels.
This directory holds a model of it, the TLC configurations that check the model
on small instances, and proofs, checked by TLAPS, of what holds for instances of
any size.

Paths below are relative to `src/asynchronous/` of the crate, except
`bin/sample_server.rs`, which is relative to `src/`.

## 1. The system

| Part | State | Operations | Talks to |
|---|---|---|---|
| **Session** `ClientSession` (`client.rs`) | `ClientState`, `active_subscriptions_by_client_id`, two timers' resetters | first message, nine kinds of frames, nine kinds of `ClientEvent`, end of stream, linger time, failure of the sink | calls `Destinations`; writes frames to the sink; resets timers |
| **Client handle** `AsyncStompClient` (`client.rs`) | the sender of the session's channel | `subscribe_callback`, `unsubscribe_callback`, `send`, `send_callback` | called by destinations, in their task or in the caller's; by the heartbeat listener |
| **Destination** `InMemDestination` and its backend (`inmemory.rs`) | a queue of `DestinationAction`s; the HashMap of subscriptions | `subscribe`, `unsubscribe`, `send`, `close`; the loop `listen_on` | calls back through client handles |
| **Map** `AsyncDestinations` (`destinations.rs`) | `VersionedMap` of destinations | `subscribe` (in a spawned task), `send`, `unsubscribe` (at once) | makes destinations, calls them |
| **Resettable timer** (`delayable_stream.rs`) | the current task, a command channel | `poll_next`, `reset`, `change_period`, drop | a chain of spawned tasks |
| **Sample server** (`bin/sample_server.rs`) | two tasks per connection | bridge from WebSocket messages to a session | session |
| **Non-locking map** (`nonlockingmap.rs`) | versioned map behind a raw pointer | `get`, `get_if_present` | its update task; not compiled: `mod.rs` does not declare it |
| Traits, errors, mocks | none | | |

What is hard here is that nothing is shared and everything is a message. A
session learns that it is subscribed from an event in its channel, a
destination learns that a session is gone from a failed send. The table of the
session and the HashMap of the destination must agree although each lags behind
the other, although SUBSCRIBE takes a detour through a spawned task, and
although either side may end, by a `DISCONNECT`, an error, a closed connection,
a missed heartbeat or a panic, between any two steps of the other. A heartbeat
that is missed passes through three tasks before the session knows.

What makes each part correct:

* **Destination**: every subscriber gets what the destination handled while it
  was subscribed, in order and once; pruning never takes the living.
* **Session**: an ERROR is followed by the end; the channel is closed exactly
  when the session has ended.
* **Together**: tables and HashMaps match; requests take effect; a client that
  has been told it is subscribed can send; no client can end the task of a
  destination.
* **Timer**: one fire per period without reset, none within a period of a reset,
  resets that never find the channel closed, nothing left behind by a drop.
* **Session and timers**: heartbeats within the interval that was agreed; a
  punctual client is kept, a silent one dropped.
* **Bridge**: what the session wrote reaches the socket, in order; both tasks
  end.
* **Non-locking map**: one value per key, every `get` resolves.

## 2. The modules

| Module | What it is | Extends |
|---|---|---|
| `Channel` | tokio's unbounded mpsc channel (external) | |
| `ClientProxy` | `AsyncStompClient`: `inbox[c]`, the channel of session `c` | `Channel` |
| `InMemDestination` | handle and task of destinations | `ClientProxy` |
| `OpenDestination` | destinations among arbitrary callers and subscribers | `InMemDestination` |
| `AbstractTopics` | what destinations promise, without queues and loops | |
| `TopicRefinement`, `MCOpenDestination` | the refinement mapping; the instance | `OpenDestination` |
| `ClientSession` | the task of a session, and its heartbeat listener | `ClientProxy` |
| `OpenSession` | sessions among arbitrary destinations | `ClientSession` |
| `AsyncDestinations` | the map, and the tasks `subscribe` spawns | `InMemDestination` |
| `Broker` | sessions and destinations composed | `AsyncDestinations`, `ClientSession` |
| `BrokerInvariants` | the inductive invariant | `Broker` |
| `BrokerRefinement`, `MCBroker` | the broker as a session sees it, and as a destination does; small instances | `BrokerInvariants` |
| `ResettableTimer` | the stream, the resetter and the chain of tasks | `Channel` |
| `OpenTimer` | timers among arbitrary owners, and time | `ResettableTimer` |
| `TimedSession`, `MCTimedSession` | sessions composed with their two timers | `OpenSession`, `ResettableTimer` |
| `WebSocketBridge` | sessions composed with the tasks of the sample server | `OpenSession` |
| `NonLockingMap` | the map, its callers and its task | `Channel` |
| `ChannelTheorems`, `ComponentTheorems` | lemmas about channels and sequences, and about the operators of `ClientProxy`, `InMemDestination` and `ClientSession` | `Channel`; `InMemDestination`, `ClientSession` |
| `DestinationProof` | proofs about destinations, the refinement to `AbstractTopics` included | `TopicRefinement` |
| `BrokerProof` | proofs about the broker | `BrokerInvariants` |
| `TimerTheorems` | lemmas about the operators of `ResettableTimer` | `ResettableTimer` |
| `SessionProof` | proofs about sessions among arbitrary destinations, behind WebSockets, and with their timers | `WebSocketBridge`, `TimedSession` |
| `OpenTimerProof`, `MapProof` | proofs about timers, and about the non-locking map | `OpenTimer`, `NonLockingMap` |

`ClientProxy` is where sessions and destinations meet, so both are written over
it and `Broker` only has to join them: it conjoins a session's part of a frame
(`SubscribeFrame`, `SendFrame`, `UnsubscribeFrame`) with what that frame calls
(`SpawnLookup`, `SendIfPresent`, `UnsubscribeIfPresent`). `TimedSession` and
`WebSocketBridge` are built in the same way over `OpenSession`: each of their
actions is an action of the session, conjoined with what it does to the timers,
or to the socket.

### State and code: sessions and destinations

* `inbox[c]` and `actions[d]` are the channels. A channel is a record of a queue
  and of whether there is a receiver; to send without receiver changes nothing
  and is how the code learns that the other side is gone.
* The uuid of a subscription is its position in `issued`, the sequence of
  subscriptions ever made. It stands for what the closures `send_fn` and
  `subscribe_callback` capture: the client, and the client's own id.
  `subscriptions[d]` is the key set of the HashMap.
* `active[c]` is `active_subscriptions_by_client_id`, as a set of records.
* `backend[d]` is the control state of `listen_on`. An action is one iteration
  of that loop, except that `send` is `BeginSend`, one `SendTo` per subscription
  and `EndSend`, for other tasks run in between and can be noticed: a session
  may die after it was sent to, or before. The action being handled stays at
  the head of the queue until it is done.
* `phase[c]` is `connecting`, `alive`, `lingering` (the second that
  `process_response_stream` waits after `Dead`), `closed` or `panicked`. However
  a session ends, its table and the receiver of its channel are dropped (`End`).
* `out[c]` is what was written to the sink. `seen[c]` and `log[d]` are history
  variables: the events a session has handled and what a destination did.
  Only properties, and bounds, look at them.
* A panic is a state, not an error of the model: `expect` in
  `unwrap_subscriber_sub_id` ends the task it runs in. That is the
  destination's task when `remove_subscription` calls back with `None`
  (`RemoveUnknownSubscription`), and the session's when `unsubscribe` finds that
  the destination has stopped (`UnsubscribePanic`).

A message body is a model value, the texts of errors and the headers of frames
are left out. Where a session has no timers (`OpenSession`, `Broker`), a timer
fires at any time, which includes the times at which the real one does. `Reject`
stands for every way a first message can be refused, the client factory's
included.

### State and code: timers

* A timer's task that fires spawns its own successor and returns its handle, so
  the tasks of a timer form a chain, of which only the last one runs:
  `task[t]`. `fired[t]` is how many of the chain have ended without the stream
  having taken their result; each later poll takes one and emits.
* `stream[t]` is the stream as its owner sees it. `initialising` is the moment
  between the two lines of `initialise` that spawn the first task and poll it.
* `left[t]` is what is left of the sleep of the task, in ticks; `Elapse` is one
  tick for all of them. A period of 0 is the timer of `default()`.
* A task is `spawned` until tokio polls it first, `alone` in
  `create_task_no_receiver`, `stalled` in `pending()`, and `aborted` until tokio
  drops it.
* An owner's step may concern several timers at once (`OwnersStep`), since the
  end of a session drops two resetters and a stream.
* On a *prompt* machine time passes only when no task and no stream has anything
  to do; on another one a task may be kept waiting for any number of ticks.
  Promises about times are checked on a prompt machine, the others on both.
* In `TimedSession`, `wanted[c]` is the heart-beat header and `Buffered` the
  arithmetic on it, in a word of `Word` values. `unread`, `unwritten` and
  `punctual` are clocks that only properties look at.

### State and code: bridge and map

* `wire[c]` is the channel from the session, and from the handler of messages,
  to the response processor. Who still holds a sender follows from the phase of
  the session (`Senders`), which is how the processor learns of its end.
* `held[c]` is the frame that the sink's `with()` has taken and not yet passed
  on. `forward()` asks the sink whether it is ready before it hands over a frame,
  which passes on the one before (`Written`), and flushes the sink when the
  session has nothing to write (`Flush`); in between it polls the session, so that
  what comes next is handled with a frame still held.
* `broken[c]` is that the sink has refused a frame and `forward()` is about to
  give up, because the processor is gone, or because a body is not UTF-8, which
  is a panic at once. A sink that holds no frame may look for the processor only
  at the next frame. `socket[c]` is `closing` between the two halves of handling
  a Close.
* `maps` is every map ever made, `map_ptr` the position of the current one and
  `freed` the positions of those that were dropped. A reader has one step for
  the load of the pointer and one for the look into the map.

## 3. What is checked

| Run | Instance | Distinct states | Shows |
|---|---|---|---|
| `destination` | 2 clients, 1 destination, 1 id, 2 messages, 5 calls | 491,981 | `LogInv`, `SubscriptionFollowsLog`, `LostOnlyForCause`, `ImplementsTopics` |
| `session` | 1 client, all inputs, 3 frames, 2 callbacks, 1 heartbeat | 224,544 | `ErrorMeansClosing`, `ChannelClosedWithSession`, `ErrorEndsSession`, `MissedHeartbeatEndsSession` |
| `broker_ids` | 1 client, 2 destinations, 2 ids, 4 frames, not careful, both closable | 352,090 | `IInv`, `SubscriberIsHeard`, `ImplementsOpenDestination` |
| `broker_careful` | 2 clients, 1 destination, 2 ids, 3 frames each, careful | 1,979,319 | `TableMatchesBackend`, `NoOrphans` |
| `broker_live` | 2 clients, 1 closable destination, 1 id, 2 frames each, with fairness | 61,406 | `SubscribeTakesEffect`, `UnsubscribeTakesEffect`, `ImplementsOpenSession` |
| `broker_repeat` | 2 clients, 1 destination, 3 frames | stops at a violation | `CallbackHasClientId` fails |
| `broker_departure` | 2 careful clients, 1 destination, 4 frames | stops at a violation | `CallbackHasClientId` fails |
| `timer` | 1 timer, periods 0 to 3, prompt or not, with fairness | 62,961 | `SilentAfterCommand`, `FiresWithinPeriod`, `ResetterIsHeard`, `FiresWithoutResetter` |
| `timed_prompt` | 1 client, intervals 0, 2 and 5, 2 frames, prompt | 724,386 | `ServerKeepsPromise`, `PunctualClientIsKept`, `SilentClientIsDropped`, `ListenerLeavesNoTask` |
| `timed_late` | 1 client, intervals of 1, not prompt, with fairness | 463,952 | `ServerResetSucceeds`, `SilenceEndsSession`, `ListenerEnds` |
| `web_socket_bridge` | 1 client, 2 messages, one of them UTF-8, 2 frames, 1 ping, with fairness | 798,671 | `FramesAreDelivered`, `PingIsAnswered`, `ConnectionEnds` |
| `non_locking_map` | 3 callers, one of them hasty, 2 keys, one thread, with fairness | 18,795 | `OneValuePerKey`, `GetResolves` |

* `SubscriptionFollowsLog` compares, for every subscription, the events its
  client was sent with those the destination's history says it was due, from
  its own joining to its own leaving. The environment of this run is wider than
  the sessions and the map: unsubscribes may be repeated, whether or not the
  session has the id in its table, and arrive after a close.
* `ImplementsOpenDestination` and `ImplementsOpenSession` say that it is indeed:
  to a destination, the sessions and the map of the broker are such an
  environment, and to a session, the map and the destinations are one as
  `OpenSession` has it, its fairness included. So what the runs `destination`
  and `session` show, with inputs that would be too many for the composition,
  carries over to it, and the destinations of the broker are abstract topics.
  The Error and the Close that a session sends itself are no events to a
  destination, and the bounds of the open modules are lifted (`Unbounded`).
* `ImplementsTopics` is the refinement to `AbstractTopics`. An abstract topic publishes a message to
  all its present members in one step; the members are then handed it one by
  one. `BeginSend` is that step, `SendTo` to a living subscriber a `Deliver`,
  `SendTo` to a dead one a stutter, `EndSend` a `Prune`. That a topic's members
  leave, or that it stops, only when they are due nothing, is what the order of
  the queue gives.
* `TableMatchesBackend` and `NoOrphans` are the two halves of agreement. The
  first holds for all clients. The second is false for a client that uses an id
  twice, whose older subscription is then out of its reach; it is checked for
  careful clients, who do neither that nor repeat an UNSUBSCRIBE.
* `ErrorMeansClosing` is what makes `ErrorEndsSession` true: the Close is
  already in the channel, so the session ends however many events come first.
* `SubscribeTakesEffect` allows for a destination that stopped, because a
  failed subscription is reported to nobody (`client.rs:289`) and a queued one
  is dropped with the queue.
* `SubscriberIsHeard` separates the SEND that is lost from those that are not: a
  client that has its subscription filed is never told by the map that there is
  no such destination.
* `SilentAfterCommand` takes a command that comes in time, before the sleep has
  run out; section 5 says what becomes of the others. `FiresWithinPeriod` counts
  from the last emission, the last command and the dropping of the resetter,
  each of which begins the sleep anew.
* `PunctualClientIsKept` is about clients whose interval has a buffer at all:
  below 5 ms the division leaves none (`HasBuffer`).
* `FramesAreDelivered` promises all of the frames only when neither the client
  has closed nor writing has failed, and all but the last one when the session's
  task has panicked (section 5); that they come in order and without gaps it
  promises always.
* `ListenerLeavesNoTask` asks for the task to be aborted, or never made: one that
  has fired and goes on without its channel would be a task left behind.

### Bounds

`MaxFrames` bounds the frames of a client, `MaxHeartbeats` the heartbeats it is
sent, `MaxCalls` and `MaxEvents` what the environments of the open modules do.
Three frames are enough for SUBSCRIBE, SUBSCRIBE, UNSUBSCRIBE with two ids, and
four for an id that is subscribed twice and unsubscribed twice, or for the
departure of section 5; two clients, for one that dies while the other is being
served; five calls, for two subscribers, two messages and an unsubscribe.
Clients, destinations, ids and messages are interchangeable, and the safety
runs use that as symmetry; the liveness runs use none.

`MaxBacklog` bounds the tasks of a chain that fired and were not polled, and
`MaxCommands` the commands in a timer's channel: two of each are enough for an
emission that is overdue when the next one comes, and for a reset behind a
change of period. An interval of 5 ticks is the smallest one with a buffer, 6
ticks, in which the server's interval of 2 passes three times. One ping is enough, for pongs carry nothing that
could be exchanged. Three callers are two that queue a creation for one key and
a third that reads.

Deadlock is not checked: every run ends when the bounds are used up, and so
does the program when all clients have gone.

### Fairness

`SessionFairness` makes a session handle the events in its channel and end after
lingering; `DestinationFairness` makes lookups, the making of destinations and
destinations' tasks go on. The timers' specifications let every task that is
ready run and time pass; the bridge's let both tasks of a connection run, and
`forward()` flush its sink, as it does whenever its stream is not ready; the
map's, its task and its callers. All of it is weak. It is justified by tokio,
which polls every task that was woken, by `select_all`, which polls its streams
in turn, and by the clock. Nothing is assumed of clients, of what comes from a
socket, or of when a caller polls again. One assumption is about the
environment: a sink accepts a frame or fails, it does not block for ever.

## 4. What is proved

TLAPS proves, for any sets of clients, destinations, ids, messages, timers,
periods, callers and keys, any bounds and any inputs, and from no assumption on
the constants but their types (`Closable` is a set of destinations, `Careful`
and `Parallel` are Booleans, periods are natural numbers, 0 among them, and in
`TimedSession` there is a longest one, as there is a largest u32):

| Theorem | States |
|---|---|
| `DestinationProof!DestinationTypes` | `Spec => []TypeOK`, destinations among arbitrary callers |
| `DestinationProof!LogInvariance` | `Spec => []LogInv`, the inductive invariant of `OpenDestination` |
| `DestinationProof!Following` | `Spec => []SubscriptionFollowsLog` |
| `DestinationProof!Losing` | `Spec => LostOnlyForCause` |
| `DestinationProof!Implementing` | `Spec => ImplementsTopics`, the refinement to `AbstractTopics` |
| `BrokerProof!Invariance` | `Spec => []IInv`, the inductive invariant of `BrokerInvariants` |
| `BrokerProof!TablesMatch` | `Spec => []TableMatchesBackend` |
| `BrokerProof!ChannelsClose` | `Spec => []ChannelClosedWithSession`, in the composed system |
| `BrokerProof!Hearing` | `Spec => SubscriberIsHeard` |
| `BrokerProof!LosingForCause` | `Spec => LostOnlyForCause`, in the composed system |
| `BrokerProof!ErrorsClose` | `Spec => []ErrorMeansClosing`, in the composed system |
| `BrokerProof!CarefulLeaveNoOrphans` | `Spec => []NoOrphans`, if `Careful` |
| `SessionProof!SessionTypes` | `Spec => []TypeOK`, sessions among arbitrary destinations |
| `SessionProof!ErrorsLeadToClose` | `Spec => []ErrorMeansClosing`, among arbitrary destinations |
| `SessionProof!ChannelsCloseWithSessions` | `Spec => []ChannelClosedWithSession`, among arbitrary destinations |
| `SessionProof!BridgeTypes` | `BridgeSpec => []BridgeTypeOK` |
| `SessionProof!Arriving` | `BridgeSpec => []FramesAreDelivered` |
| `SessionProof!TimersOwned` | `TimedSpec => []TimedInv`, what holds of sessions and timers on any machine |
| `SessionProof!ServerResets` | `TimedSpec => []ServerResetSucceeds` |
| `SessionProof!TimersInTime` | `TimedSpec => []PromptInv`, if `Prompt` |
| `SessionProof!PromiseKept` | `TimedSpec => []ServerKeepsPromise`, if `Prompt` |
| `SessionProof!ListenerTidies` | `TimedSpec => []ListenerLeavesNoTask`, if `Prompt` |
| `SessionProof!SilenceEnds` | `TimedSpec => []SilentClientIsDropped`, if `Prompt` and `NoOverflow` |
| `SessionProof!PunctualityPays` | `TimedSpec => []PunctualClientIsKept`, if `Prompt` and `NoOverflow` |
| `OpenTimerProof!TimerTypes` | `Spec => []TypeOK` |
| `OpenTimerProof!ResetterHeard` | `Spec => []ResetterIsHeard` |
| `OpenTimerProof!Punctual` | `Spec => []FiresWithinPeriod` |
| `OpenTimerProof!Silent` | `Spec => []SilentAfterCommand` |
| `MapProof!OneValue` | `Spec => []OneValuePerKey`, unless `Parallel` |
| `MapProof!ValuesDoAgree` | `Spec => []ValuesAgree`, in parallel too |

The conditions are those of the properties: what is false of a careless client,
of tasks in parallel, or of an interval whose product with 120 is no u32
(`NoOverflow` says that it is one), is in section 5. `Prompt` is explained in
section 2: on a machine that is late, nobody can promise a time. `ValuesAgree` is
what remains of `OneValuePerKey` in parallel: two values that were not read from
a dropped map agree.

### Destinations

`OpenDestination!LogInv` consists of `Core`, `LogIsSound`, `LoopOwesMessage` and
`SubscriptionFollowsLog`; each of the first three is there for what it tells a
step that the last one alone could not know.

* `SendTo` reads the message from the head of the queue, so a destination that
  is sending has a Send there (`SendInHand`, without which types are not
  inductive either), and its loop goes only over subscriptions of its HashMap
  (`LoopIsSound`). What is in the set of the dead belongs to sessions that are
  gone (`DeadAreGone`). An Unsubscribe in the queue names a subscription of the
  client that asks (`RequestsAreOwn`), so the answer goes to the client whose
  subscription it was. No event names an id that is still to be drawn
  (`ToldOfIssued`). These make up `Core`.
* Every id joined once, in the log of its own destination, and one in the
  HashMap has not left (`LogIsSound`). The other direction, that a living
  session which has not left is in the HashMap, is what makes the loop complete.
* Between `BeginSend` and the last `SendTo`, a message is due to some who do not
  have it yet. `SubscriptionFollowsLog` allows that for those in `todo` only, and
  `LoopOwesMessage` says that it is the last of what is due to them and the very
  message the loop is about, so `SendTo` settles it.

What is due to a subscription is a part of the log, from its joining to its
leaving. `ComponentTheorems` says how that part grows with an entry
(`DuringMore`), what ends it (`DuringOver`), and what begins it (`DuringFirst`);
`Selected` is written as a function, so that appending to a sequence is a step
of it and no induction is needed. The environment appears in these proofs as
`EnvironmentStep`: it queues actions, starts destinations, fails subscriptions,
takes events and ends sessions.

`Implementing` needs of this only `Core`: an initial state of the destinations is
one of the topics, and there is a lemma for every action that says which step of
a topic it is, or that it is none.

### The broker

Types alone are not inductive in the broker. `SendTo` reads the message from the
head of the queue, so it must be known that a destination that is sending has a
Send there: `SendInHand`.

`TableMatchesBackend` is not inductive either. The argument of `IInv` follows an
id through its life:

1. `add_subscription` draws it; nobody mentions it yet (`Consistent`: whoever
   mentions an id mentions one that was drawn, and is right about its client,
   destination and name).
2. A Subscribed event announces it, once, and while it does nobody has asked to
   unsubscribe it and the destination still has it (`AnnouncedOnce`,
   `AnnouncedIsNew`). So the entry made from it is right.
3. An UNSUBSCRIBE names an id that is in the table, hence not one that is still
   to be announced.
4. `remove_subscription` takes it and sends the answer to the client that has
   it in its table; that client is alive, since ended sessions have no table
   (`EndedHaveNothing`), and its channel is therefore open
   (`ChannelClosedWithSession`), so the answer is really sent.
5. `unsubscribed` removes the entries of that name; what stays has another name
   and is not what was answered.
6. The pruning in `send` takes only ids of sessions that are gone
   (`DeadAreGone`), which needs that a channel never reopens (`NeverReopened`).

In `BrokerProof`, `PlainStep` deals with all steps that touch none of this, and
each of the other steps has a lemma of its own. `ChannelTheorems` says what send
and recv do to a channel, so that no later proof looks into a sequence.

`Hearing` takes `IInv`, by which an id in a table was drawn by the destination
that the table names, and `Reachable`: a destination that has drawn an id was
made, and its handle finds the receiver for as long as the task runs.
`LosingForCause` is `DeadAreGone` seen from the other side.
`ErrorsClose` needs `ClosingInv`: a session that connects has written no ERROR,
and one that has, and lives, has the Close in its channel; the channel of a
living session only grows but for the event being handled, and the handling of
Close ends the session.

`CarefulLeaveNoOrphans` needs `CarefulInv`, which follows the use of an id by a
careful client: from the SUBSCRIBE on it is in one place only, a lookup, the
queue of one destination, or one uuid (`UsedOnce`). So there is no other entry
for `subscribed` to overwrite, and the one that `unsubscribed` removes is the one
whose subscription has left the HashMap (`AnswersAreTrue`).

### Sessions and their bridge

`SessionTypes` says that types are inductive for sessions alone, whatever
destinations answer; the same lemma about a session's steps serves the broker.
`ErrorsLeadToClose` and `ChannelsCloseWithSessions` come from one invariant
(`Closing`): a session that is still to connect has written no ERROR, and of a
living one the channel is open and keeps its Close.

`Arriving` follows a frame along the line from session to client, which is what
was written to the socket, behind it what is in the channel, and behind that the
frame the sink holds (`Whole`). While the processor runs, the frames in the line
are those the session wrote (`LineOf`): a frame written is put at its end, a Pong
or a Close between the frames is none of them, and what is passed on or forwarded
only moves along the line. A frame that the sink refuses is the last. When
the processor ends, what is in the channel is lost. If neither the client closed
nor writing failed, there is nothing in it: the processor has stopped because
nobody had a sender any more, so the session has ended, and a session that has
ended writes no more. It ended with a frame held only if its task panicked, for
the linger time begins with a flush. Otherwise what was written to the socket
still begins what the session wrote.

### Timers

`ResetterHeard` needs `ChainInv`, which says for each state of the stream which
task of the chain has the receiver; the one task that goes on without it
(`alone`) does so only after the resetter was dropped. `Punctual` needs
`PaceInv`: what a task has left of its sleep, added to the ticks since the last
emission or command, is never more than the period (`OnTime`), and whatever has
something else to do than to sleep has been idle for no tick (`Unhandled`). A
tick of a prompt machine meets only timers of which neither is true, so it takes
from the one what it adds to the other.

`Silent` needs `Quiet`, which follows the promise through the channel: what is
promised is never more than what is left of the sleep, or, while a command is
queued, than the period the task will have worked through the queue with
(`After`), in the order of the commands.

### Sessions and their timers

Both timers of a client have owners that come and go, the session and the
listener, so the first invariant (`TimedInv`) is about who has what: the
server's timer is there as long as its session lives, the client's as long as
the listener waits, both resetters as long as the session, and the periods are
those of the heart-beat header (`OwnTimers`). With `ChainInv`, the invariant that
`ResetterHeard` needs as well, this is `ServerResets`; no promptness is assumed.

Every step but a tick is a step of one client and its two timers (`TimedStep`),
and leaves all other clients alone (`Elsewhere`). Five actions of `TimedNext` reset
timers or end the session, and are treated as one (`ResettingStep`): it resets the
client's timer if it heard from the client, and the server's only if it writes.

On a prompt machine, `PromptInv` adds for each client (`Timely`):

* `Sleeping`: a task sleeps for a period at most, fires once before its owner
  notices, and not before the stream was polled first. So `FirstPollReady`, the
  end of a stream at its first poll, cannot happen, and the task that the
  listener aborts is the one that runs.
* `InPace`: what is left of the sleep and the ticks since the last reset or
  emission are together within the period; while a reset is queued, there was
  no tick since.
* `Reported`: a session whose listener is done has an Error or a Close in its
  channel. Error becomes Close, and Close ends the session, which therefore
  never sees another tick. This is why `SilenceEnds` needs all three tasks.

A tick finds nobody with anything to do (`TickIsQuiet`), so that both timers of a
living session sleep, and takes from the sleep what it adds to the clock.

`PunctualityPays` is the other direction, and needs an invariant of its own
(`Lazy`): what the client's timer has left of its sleep, and the ticks of the
client's silence, are together at least the period, unless a reset is in the
timer's channel. The period is
longer than the interval (`BufferedInterval`, which is where the rounding, the 5
ms and the width of the word come in), so the sleep cannot run out while the
client is in time, and a reset that is queued is taken before anybody sleeps on.

### The non-locking map

`MapInv` says that maps only grow (`Growing`: a later map has every entry of an
earlier one, and the newest was not dropped), and that what a caller was told is
an entry of the map it read (`Answered`). So two callers of a key found their
values in two maps of which the later has both. On one thread the task does not
work while somebody reads (`Alone`), so what is read is the newest map.

### What is only model-checked

All liveness properties, which are out of the prover's reach, and the two
refinements of `BrokerRefinement`. Every safety invariant that a run checks is
stated by a theorem.

## 5. What the checks found

`AsyncStompClient` expects to be given the client's own subscription id
(`client.rs:107-110`). `remove_subscription` has none to give when the
subscription is not in the HashMap, and the panic is in the destination's task,
which ends for every client. Two ways lead there:

* `broker_repeat`: a second UNSUBSCRIBE, read before the answer to the first has
  been handled. The table still has the entry, so the session asks again.
* `broker_departure`: SUBSCRIBE, then SEND, UNSUBSCRIBE, DISCONNECT. If the
  session ends before the destination gets to the Send, the Send finds the
  channel closed and prunes the subscription, and the Unsubscribe behind it
  finds nothing.

The limits of what the properties say of the timer, each a behaviour of
`ResettableTimer`:

* A reset that comes when the sleep has run out, or while an emission waits to
  be polled, does not delay the next emission, though the comment on `reset()`
  (`delayable_stream.rs:24`) says so without condition.
* A stream that is dropped when its task has fired aborts a task that has ended
  already; the successor goes on for ever, and goes on listening, unlike what
  the test `it_ends_task_when_dropped` shows of one that has not fired. The
  server's timer is dropped like that when a session ends with a heartbeat due.
  The client's is not (`ListenerLeavesNoTask`).
* If the first task has fired before `initialise` polls it, the stream ends
  without an emission, and with it the server's heartbeats. It takes a slow
  thread and a short period.

Others are visible by changing a constant of a run: with `Word` small enough for
`supplied * 120` to wrap (`client.rs:569`; in u32 this is above 35791394 ms) the
timeout is shorter than the interval, and `PunctualClientIsKept` fails, or a
debug build panics. With `Parallel` true in `NonLockingMap.cfg` the model has tasks
on several threads: a reader that has loaded the pointer may follow it after the
update task has swapped it and dropped the map it led to (`nonlockingmap.rs:76,
105-110`), so that it returns neither the value nor `None`, as
`nonlockingmap.rs:145` says it does, and `OneValuePerKey` fails. On one thread the
load and the look are one step. The file is not declared in `mod.rs`.

Also visible, though nothing in the repository says otherwise: a SEND right
behind the SUBSCRIBE that makes a destination is lost (`destinations.rs:64`); a
client is not told that a subscription failed; an UNSUBSCRIBE that comes before
its Subscribed event has been handled is answered with ERROR; the subscriptions
of a session that is gone stay until the next Send; a client that closes its
WebSocket is sent no ERROR, since the processor stops at the Close before it; a
frame that makes the session panic (ABORT, say) right behind one that is answered
with ERROR takes the ERROR with it, for the sink holds that back until the next
frame or flush (`sample_server.rs:135`, `client.rs:483`).

## 6. Not modelled, and the plan

Not modelled because there is nothing to: traits, newtypes, error conversions,
macros, mocks. Of the sample server, `main` and the accept loop are left out,
which keep no state; so are the Pong and raw frames that `handle_message`
ignores. Memory is not counted: neither the boxes that a timer nests with every
command (`delayable_stream.rs:135`) nor the length of channels. `Quit`, which
nobody sends to the non-locking map's task, is left out.

What is left, in the order it would come:

1. The refinements of `BrokerRefinement` as theorems, for which the bounds of the
   open modules have to move out of their actions.
2. A `Broker` whose sessions have their timers; each is checked apart so far,
   with arbitrary timers in the one and arbitrary destinations in the other.
