---------------------------- MODULE TimerTheorems ----------------------------
(***************************************************************************)
(* Lemmas about the steps of ResettableTimer, whoever owns a timer and its *)
(* resetter: the receiver of the commands is handed along the chain of     *)
(* tasks, and where time waits for whoever has something to do, the task   *)
(* at its end never sleeps for longer than a period.                       *)
(***************************************************************************)
EXTENDS ResettableTimer, ChannelTheorems

\* Who has the receiver of the commands: it is lost only with the stream, or
\* with a task that goes on alone since nobody can send commands any more.
HandedOver(t) ==
    /\ stream[t] \in {"absent", "unpolled"} => task[t] = "none"
    /\ stream[t] \in {"initialising", "held"} => task[t] \notin {"none", "aborted"}
    /\ task[t] = "alone" => ~resetter[t]
    /\ task[t] = "aborted" => stream[t] = "dropped"
    /\ resetter[t] /\ stream[t] \notin {"absent", "dropped"} => commands[t].open

ChainInv == TimerTypeOK /\ \A t \in Timers : HandedOver(t)

-----------------------------------------------------------------------------
(* The steps of the owners.                                                *)

\* The commands of the resetter are commands, and the new period is one.
LEMMA CommandTypes ==
    ASSUME NEW cmd \in Command, NEW p \in Periods
    PROVE  NewPeriod(cmd, p) \in Periods
BY DEF Command, NewPeriod, Reset

\* What one step of the owners of a timer is, without the sets it is made of.
LEMMA OrderEffect ==
    ASSUME TimerTypeOK, NEW t \in Timers, NEW cmd \in Command, SendCommand(t, cmd)
    PROVE  /\ resetter[t]
           /\ commands' = [commands EXCEPT ![t] = Push(commands[t], cmd)]
           /\ Push(commands[t], cmd) \in ChannelOf(Command)
           /\ Push(commands[t], cmd).open = commands[t].open
           /\ UNCHANGED <<stream, task, fired, period, left, resetter>>
<1>1. commands[t] \in ChannelOf(Command)
  BY DEF TimerTypeOK
<1>2. /\ Push(commands[t], cmd) \in ChannelOf(Command)
      /\ Push(commands[t], cmd).open = commands[t].open
  BY <1>1, PushProperties
<1> QED
  BY <1>2 DEF SendCommand, OwnersStep, TimerTypeOK

\* Drop for ResettableTimerResetter.
LEMMA AbandonEffect ==
    ASSUME TimerTypeOK, NEW t \in Timers, DropResetter(t)
    PROVE  /\ resetter' \in [Timers -> BOOLEAN]
           /\ ~resetter'[t]
           /\ \A x \in Timers : x # t => resetter'[x] = resetter[x]
           /\ UNCHANGED <<stream, task, fired, period, left, commands>>
<1>1. resetter' = [x \in Timers |-> resetter[x] /\ x \notin {t}]
  BY DEF DropResetter, OwnersStep
<1>2. /\ resetter' \in [Timers -> BOOLEAN]
      /\ ~resetter'[t]
  BY <1>1
<1>3. ASSUME NEW x \in Timers, x # t
      PROVE  resetter'[x] = resetter[x]
  <2>1. resetter[x] \in BOOLEAN
    BY DEF TimerTypeOK
  <2>2. resetter'[x] = (resetter[x] /\ x \notin {t})
    BY <1>1
  <2> QED
    BY <1>3, <2>1, <2>2
<1>4. UNCHANGED <<stream, task, fired, period, left, commands>>
  BY DEF DropResetter, OwnersStep, Nothing, TimerTypeOK
<1> QED
  BY <1>2, <1>3, <1>4

\* Drop for ResettableTimer: the stream is gone, and for other timers nothing
\* has happened.
LEMMA DropEffect ==
    ASSUME TimerTypeOK, NEW t \in Timers, Drop(t)
    PROVE  /\ stream' = [stream EXCEPT ![t] = "dropped"]
           /\ task' \in [Timers -> TaskState]
           /\ fired' = [fired EXCEPT ![t] = 0]
           /\ commands' \in [Timers -> ChannelOf(Command)]
           /\ task'[t] \in {task[t], "aborted"}
           /\ commands'[t] \in {commands[t], Dropped}
           /\ \A x \in Timers : x # t => task'[x] = task[x] /\ commands'[x] = commands[x]
           /\ UNCHANGED <<period, left, resetter>>
<1>1. Dropped \in ChannelOf(Command)
  BY EmptyChannels
<1> QED
  BY <1>1 DEF Drop, OwnersStep, Nothing, TimerTypeOK, TaskState

\* At first there is no timer.
LEMMA NoTimers == TimerInit => ChainInv
BY PeriodsAssumption, EmptyChannels
   DEF TimerInit, ChainInv, TimerTypeOK, HandedOver, StreamState, TaskState

\* create() and default(), of several timers at once.
LEMMA CreateEffect ==
    ASSUME ChainInv, NEW ps, CreateTimers(ps),
           \A t \in DOMAIN ps : t \in Timers /\ ps[t] \in Periods
    PROVE  /\ ChainInv'
           /\ \A t \in DOMAIN ps :
                /\ stream[t] = "absent" /\ stream'[t] = "unpolled"
                /\ period'[t] = ps[t] /\ commands'[t] = NewChannel /\ resetter'[t]
           /\ \A t \in Timers \ DOMAIN ps :
                /\ stream'[t] = stream[t] /\ period'[t] = period[t]
                /\ commands'[t] = commands[t] /\ resetter'[t] = resetter[t]
           /\ UNCHANGED <<task, fired, left>>
<1>1. /\ \A t \in DOMAIN ps : stream[t] = "absent"
      /\ stream' = [t \in Timers |-> IF t \in DOMAIN ps THEN "unpolled" ELSE stream[t]]
      /\ period' = [t \in Timers |-> IF t \in DOMAIN ps THEN ps[t] ELSE period[t]]
      /\ commands' = [t \in Timers |-> IF t \in DOMAIN ps THEN NewChannel ELSE commands[t]]
      /\ resetter' = [t \in Timers |-> t \in DOMAIN ps \/ resetter[t]]
      /\ UNCHANGED <<task, fired, left>>
  BY DEF CreateTimers
<1>2. NewChannel \in ChannelOf(Command) /\ NewChannel.open
  BY EmptyChannels
<1>3. \A t \in Timers : resetter[t] \in BOOLEAN
  BY DEF ChainInv, TimerTypeOK
<1>4. \A t \in Timers : (t \in DOMAIN ps \/ resetter[t]) \in BOOLEAN
  BY <1>3
<1>5. /\ \A t \in DOMAIN ps : resetter'[t]
      /\ \A t \in Timers \ DOMAIN ps : resetter'[t] = resetter[t]
      /\ resetter' \in [Timers -> BOOLEAN]
  BY <1>1, <1>3, <1>4, Zenon
<1>6. TimerTypeOK'
  BY <1>1, <1>2, <1>5 DEF ChainInv, TimerTypeOK, StreamState
<1>7. ASSUME NEW t \in Timers
      PROVE  HandedOver(t)'
  BY <1>1, <1>2, <1>5 DEF ChainInv, HandedOver
<1> QED
  BY <1>1, <1>5, <1>6, <1>7 DEF ChainInv

\* poll_next, the first time and later.
LEMMA PollChain ==
    ASSUME ChainInv, NEW t \in Timers,
           Initialise(t) \/ FirstPollPending(t) \/ FirstPollReady(t) \/ PollExistingTask(t)
    PROVE  ChainInv'
<1> USE DEF ChainInv
<1>1. CASE Initialise(t)
  BY <1>1 DEF Initialise, TimerTypeOK, HandedOver, StreamState, TaskState
<1>2. CASE FirstPollPending(t) \/ FirstPollReady(t)
  BY <1>2 DEF FirstPollPending, FirstPollReady, TimerTypeOK, HandedOver, StreamState
<1>3. CASE PollExistingTask(t)
  BY <1>3 DEF PollExistingTask, Emits, TimerTypeOK, HandedOver
<1> QED
  BY <1>1, <1>2, <1>3

\* Commands, and the dropping of resetters and streams, of several timers at
\* once.
LEMMA OwnersEffect ==
    ASSUME ChainInv, NEW sent, NEW quit, NEW gone, OwnersStep(sent, quit, gone),
           \A t \in DOMAIN sent : sent[t] \in Command
    PROVE  /\ ChainInv'
           /\ UNCHANGED <<period, left>>
           /\ \A t \in Timers :
                /\ commands'[t] = IF t \in gone /\ stream[t] = "unpolled" THEN Dropped
                                  ELSE IF t \in DOMAIN sent THEN Push(commands[t], sent[t]) ELSE commands[t]
                /\ commands'[t] \in ChannelOf(Command)
                /\ resetter'[t] = (resetter[t] /\ t \notin quit)
                /\ stream'[t] = IF t \in gone THEN "dropped" ELSE stream[t]
                /\ task'[t] = IF t \in gone /\ stream[t] = "held" /\ fired[t] = 0 THEN "aborted"
                              ELSE task[t]
                /\ fired'[t] = IF t \in gone THEN 0 ELSE fired[t]
<1>1. /\ commands' = [t \in Timers |->
           IF t \in gone /\ stream[t] = "unpolled" THEN Dropped
           ELSE IF t \in DOMAIN sent THEN Push(commands[t], sent[t]) ELSE commands[t]]
      /\ resetter' = [t \in Timers |-> resetter[t] /\ t \notin quit]
      /\ stream' = [t \in Timers |-> IF t \in gone THEN "dropped" ELSE stream[t]]
      /\ task' = [t \in Timers |->
           IF t \in gone /\ stream[t] = "held" /\ fired[t] = 0 THEN "aborted" ELSE task[t]]
      /\ fired' = [t \in Timers |-> IF t \in gone THEN 0 ELSE fired[t]]
      /\ UNCHANGED <<period, left>>
  BY DEF OwnersStep
<1>2. Dropped \in ChannelOf(Command) /\ ~Dropped.open
  BY EmptyChannels
<1>3. ASSUME NEW t \in Timers
      PROVE  /\ commands[t] \in ChannelOf(Command)
             /\ t \in DOMAIN sent =>
                  /\ Push(commands[t], sent[t]) \in ChannelOf(Command)
                  /\ Push(commands[t], sent[t]).open = commands[t].open
  <2>1. commands[t] \in ChannelOf(Command)
    BY DEF ChainInv, TimerTypeOK
  <2>2. t \in DOMAIN sent => sent[t] \in Command
    OBVIOUS
  <2> QED
    BY <2>1, <2>2, PushProperties
<1>4. \A t \in Timers : /\ commands'[t] \in ChannelOf(Command)
                        /\ ~(t \in gone /\ stream[t] = "unpolled")
                             => commands'[t].open = commands[t].open
  BY <1>1, <1>2, <1>3
<1>5. \A t \in Timers : (resetter[t] /\ t \notin quit) \in BOOLEAN
  OBVIOUS
<1>6. resetter' \in [Timers -> BOOLEAN] /\ \A t \in Timers : resetter'[t] => resetter[t]
  BY <1>1, <1>5, Zenon
<1>7. commands' \in [Timers -> ChannelOf(Command)]
  BY <1>1, <1>2, <1>3
<1>8. TimerTypeOK'
  BY <1>1, <1>6, <1>7 DEF ChainInv, TimerTypeOK, StreamState, TaskState
<1>9. ASSUME NEW t \in Timers
      PROVE  HandedOver(t)'
  <2>1. HandedOver(t) /\ stream[t] \in StreamState /\ fired[t] \in Nat
    BY DEF ChainInv, TimerTypeOK
  <2>2. CASE t \in gone
    <3>1. stream'[t] = "dropped" /\ task'[t] \in {task[t], "aborted"}
      BY <1>1, <2>2
    <3> QED
      BY <1>6, <2>1, <3>1 DEF HandedOver
  <2>3. CASE t \notin gone
    <3>1. stream'[t] = stream[t] /\ task'[t] = task[t]
      BY <1>1, <2>3
    <3> QED
      BY <1>4, <1>6, <2>1, <2>3, <3>1 DEF HandedOver
  <2> QED
    BY <2>2, <2>3
<1> QED
  BY <1>1, <1>4, <1>8, <1>9 DEF ChainInv

\* An owner that has waited for an emission drops the stream.
LEMMA NextAndDropChain ==
    ASSUME ChainInv, NEW t \in Timers, NextAndDrop(t)
    PROVE  ChainInv'
<1>1. /\ stream' = [stream EXCEPT ![t] = "dropped"]
      /\ task' = task \/ task' = [task EXCEPT ![t] = "aborted"]
      /\ fired' = [fired EXCEPT ![t] = 0]
      /\ UNCHANGED <<period, left, commands, resetter>>
  BY DEF NextAndDrop
<1> QED
  BY <1>1 DEF ChainInv, TimerTypeOK, HandedOver, StreamState, TaskState

-----------------------------------------------------------------------------
(* The steps of the tasks, and time.                                       *)

\* So does every step of the tasks.
LEMMA TaskChain ==
    ASSUME ChainInv, NEW t \in Timers, TaskStep(t)
    PROVE  ChainInv'
<1> USE DEF ChainInv
<1>1. CASE Start(t)
  BY <1>1, PeriodsAssumption DEF Start, TimerTypeOK, HandedOver, TaskState
<1>2. CASE HandleCommand(t)
  <2>1. commands[t] \in ChannelOf(Command) /\ Ready(commands[t]) /\ period[t] \in Periods
    BY <1>2 DEF HandleCommand, TimerTypeOK
  <2>2. /\ Pop(commands[t]) \in ChannelOf(Command)
        /\ Pop(commands[t]).open = commands[t].open
        /\ NewPeriod(First(commands[t]), period[t]) \in Periods
    BY <2>1, PopProperties, CommandTypes
  <2>3. /\ commands' = [commands EXCEPT ![t] = Pop(commands[t])]
        /\ period' = [period EXCEPT ![t] = NewPeriod(First(commands[t]), period[t])]
        /\ left' = [left EXCEPT ![t] = period'[t]]
        /\ UNCHANGED <<stream, task, fired, resetter>>
    BY <1>2 DEF HandleCommand
  <2>4. TimerTypeOK'
    BY <2>2, <2>3, PeriodsAssumption DEF TimerTypeOK
  <2>5. ASSUME NEW x \in Timers
        PROVE  HandedOver(x)'
    BY <2>2, <2>3 DEF HandedOver, TimerTypeOK
  <2> QED
    BY <2>4, <2>5
<1>3. CASE ResetterGone(t)
  BY <1>3, PeriodsAssumption DEF ResetterGone, TimerTypeOK, HandedOver, TaskState
<1>4. CASE Expire(t)
  BY <1>4 DEF Expire, Fired, TimerTypeOK, HandedOver, TaskState
<1>5. CASE ExpireAlone(t)
  <2>1. /\ commands' = [commands EXCEPT ![t] = Dropped] /\ task[t] = "alone"
        /\ left' = [left EXCEPT ![t] = period[t]]
        /\ UNCHANGED <<stream, task, period, resetter>>
    BY <1>5 DEF ExpireAlone
  <2>2. TimerTypeOK'
    <3>1. period[t] \in Nat
      BY PeriodsAssumption DEF TimerTypeOK
    <3>2. fired' \in [Timers -> Nat]
      BY <1>5 DEF ExpireAlone, Fired, TimerTypeOK
    <3>3. Dropped \in ChannelOf(Command)
      BY EmptyChannels
    <3> QED
      BY <2>1, <3>1, <3>2, <3>3 DEF TimerTypeOK
  <2>3. ASSUME NEW x \in Timers
        PROVE  HandedOver(x)'
    BY <2>1 DEF TimerTypeOK, HandedOver
  <2> QED
    BY <2>2, <2>3
<1>6. CASE Cancel(t)
  BY <1>6, EmptyChannels DEF Cancel, TimerTypeOK, HandedOver, TaskState
<1> QED
  BY <1>1, <1>2, <1>3, <1>4, <1>5, <1>6 DEF TaskStep

\* And the passing of time moves nothing.
LEMMA TickChain ==
    ASSUME ChainInv, Elapse
    PROVE  ChainInv'
BY DEF ChainInv, Elapse, TimerTypeOK, HandedOver

\* A poll, a drop and a step of a task concern one timer only.
LEMMA OneTimer ==
    ASSUME ChainInv, NEW t \in Timers,
           \/ Initialise(t) \/ FirstPollPending(t) \/ FirstPollReady(t) \/ PollExistingTask(t)
           \/ NextAndDrop(t) \/ TaskStep(t),
           NEW u \in Timers \ {t}
    PROVE  UNCHANGED <<stream[u], task[u], fired[u], period[u], left[u], commands[u], resetter[u]>>
<1> USE DEF ChainInv, TimerTypeOK
<1>1. CASE Initialise(t) \/ FirstPollPending(t) \/ FirstPollReady(t) \/ PollExistingTask(t)
  BY <1>1 DEF Initialise, FirstPollPending, FirstPollReady, PollExistingTask
<1>2. CASE NextAndDrop(t)
  BY <1>2 DEF NextAndDrop
<1>3. CASE TaskStep(t)
  BY <1>3 DEF TaskStep, Start, HandleCommand, ResetterGone, Expire, ExpireAlone, Cancel, Fired
<1> QED
  BY <1>1, <1>2, <1>3

\* A task that is only ever reset keeps its period.
LEMMA TaskResets ==
    ASSUME ChainInv, commands \in [Timers -> ChannelOf({Reset})],
           NEW t \in Timers, TaskStep(t)
    PROVE  /\ commands' \in [Timers -> ChannelOf({Reset})]
           /\ period' = period
<1>1. Dropped \in ChannelOf({Reset})
  BY EmptyChannels
<1>2. CASE HandleCommand(t)
  <2>1. commands[t] \in ChannelOf({Reset}) /\ Ready(commands[t])
    BY <1>2 DEF HandleCommand
  <2>2. Pop(commands[t]) \in ChannelOf({Reset}) /\ First(commands[t]) = Reset
    <3>1. Pop(commands[t]) \in ChannelOf({Reset}) /\ First(commands[t]) \in {Reset}
      BY ONLY <2>1, PopProperties
    <3> QED
      BY <3>1
  <2>3. NewPeriod(First(commands[t]), period[t]) = period[t]
    BY <2>2 DEF NewPeriod, Reset
  <2> QED
    BY <1>2, <2>2, <2>3 DEF HandleCommand, ChainInv, TimerTypeOK
<1>3. CASE ~HandleCommand(t)
  BY <1>1, <1>3 DEF TaskStep, Start, ResetterGone, Expire, ExpireAlone, Cancel
<1> QED
  BY <1>2, <1>3

-----------------------------------------------------------------------------
(* On a prompt machine, where time passes only when nobody has anything to *)
(* do.                                                                     *)

\* The task at the end of the chain sleeps for a period and no longer; what
\* fired before it has been noticed before it began to sleep.
Sleeping(t) ==
    /\ stream[t] \notin {"held", "dropped"} => fired[t] = 0
    /\ stream[t] # "ended"
    /\ stream[t] \in {"initialising", "held"} =>
         /\ task[t] \in {"running", "alone"} => left[t] <= period[t]
         /\ task[t] \in {"alone", "stalled"} => ~resetter[t] /\ ~Ready(commands[t])
         /\ task[t] = "alone" => period[t] > 0
         /\ task[t] \in {"running", "alone"} /\ (stream[t] = "initialising" \/ fired[t] = 1) =>
              left[t] = period[t]
         /\ fired[t] = 0 \/ (fired[t] = 1 /\ period[t] > 0)

\* If n ticks have passed since a timer was last reset or emitted, it emits
\* before there are more of them than its period.
InPace(t, n) ==
    period[t] > 0 =>
        /\ n <= period[t]
        /\ stream[t] \in {"unpolled", "initialising"} => n = 0
        /\ stream[t] = "held" =>
             /\ Ready(commands[t]) => n = 0
             /\ fired[t] = 0 /\ task[t] = "spawned" => n = 0
             /\ fired[t] = 0 /\ task[t] = "running" /\ ~Ready(commands[t]) =>
                  n + left[t] <= period[t]

\* A closed channel has nothing to offer.
LEMMA NothingReady == ~Ready(Dropped)
BY DEF Ready, Dropped

\* The owner's polls let the task sleep.
LEMMA SleepingPoll ==
    ASSUME ChainInv, NEW t \in Timers, Sleeping(t),
           \/ Initialise(t) \/ FirstPollPending(t) \/ FirstPollReady(t) \/ PollExistingTask(t)
           \/ NextAndDrop(t)
    PROVE  Sleeping(t)' /\ ~FirstPollReady(t)
<1> USE DEF ChainInv, TimerTypeOK
<1>1. CASE Initialise(t)
  BY <1>1 DEF Initialise, FirstPollReady, Sleeping
<1>2. CASE FirstPollPending(t)
  BY <1>2 DEF FirstPollPending, FirstPollReady, Sleeping
<1>3. CASE FirstPollReady(t)
  BY <1>3 DEF FirstPollReady, Sleeping
<1>4. CASE PollExistingTask(t)
  BY <1>4 DEF PollExistingTask, Emits, FirstPollReady, Sleeping
<1>5. CASE NextAndDrop(t)
  <2>1. stream'[t] = "dropped" /\ stream[t] = "held"
    BY <1>5 DEF NextAndDrop, Sleeping
  <2> QED
    BY <2>1 DEF FirstPollReady, Sleeping
<1> QED
  BY <1>1, <1>2, <1>3, <1>4, <1>5

\* So do its own steps: it fires at most once before the owner notices.
LEMMA SleepingTask ==
    ASSUME ChainInv, commands \in [Timers -> ChannelOf({Reset})],
           NEW t \in Timers, Sleeping(t), TaskStep(t)
    PROVE  Sleeping(t)'
<1>1. period' = period /\ period[t] \in Nat
  BY TaskResets, PeriodsAssumption DEF ChainInv, TimerTypeOK
<1> USE DEF ChainInv, TimerTypeOK
<1>2. CASE Start(t)
  BY <1>1, <1>2 DEF Start, Sleeping
<1>3. CASE HandleCommand(t)
  <2>1. /\ Ready(commands[t]) /\ task[t] = "running" /\ left'[t] = period[t]
        /\ period'[t] = period[t]
        /\ UNCHANGED <<stream, task, fired, resetter>>
    BY <1>1, <1>3 DEF HandleCommand
  <2> QED
    BY <1>1, <2>1 DEF Sleeping
<1>4. CASE ResetterGone(t)
  BY <1>1, <1>4 DEF ResetterGone, Sleeping
<1>5. CASE Expire(t)
  BY <1>1, <1>5 DEF Expire, Fired, Sleeping, HandedOver
<1>6. CASE ExpireAlone(t)
  BY <1>1, <1>6, NothingReady DEF ExpireAlone, Fired, Sleeping, HandedOver
<1>7. CASE Cancel(t)
  BY <1>1, <1>7 DEF Cancel, Sleeping, HandedOver
<1> QED
  BY <1>2, <1>3, <1>4, <1>5, <1>6, <1>7 DEF TaskStep

\* A task that is reset when it should be keeps its pace.
LEMMA PacedTask ==
    ASSUME ChainInv, commands \in [Timers -> ChannelOf({Reset})],
           NEW t \in Timers, Sleeping(t), TaskStep(t), resetter[t], NEW n \in Nat, InPace(t, n)
    PROVE  InPace(t, n)'
<1>1. period' = period /\ period[t] \in Nat
  BY TaskResets, PeriodsAssumption DEF ChainInv, TimerTypeOK
<1> USE DEF ChainInv, TimerTypeOK
<1>2. CASE Start(t)
  BY <1>1, <1>2 DEF Start, InPace
<1>3. CASE HandleCommand(t)
  <2>1. /\ Ready(commands[t]) /\ task[t] = "running" /\ left'[t] = period[t]
        /\ period'[t] = period[t]
        /\ UNCHANGED <<stream, task, fired, resetter>>
    BY <1>1, <1>3 DEF HandleCommand
  <2> QED
    BY <1>1, <2>1 DEF InPace
<1>4. CASE ResetterGone(t)
  BY <1>4 DEF ResetterGone
<1>5. CASE Expire(t)
  BY <1>1, <1>5 DEF Expire, Fired, InPace, HandedOver
<1>6. CASE ExpireAlone(t)
  BY <1>6 DEF ExpireAlone, HandedOver
<1>7. CASE Cancel(t)
  BY <1>1, <1>7 DEF Cancel, InPace, HandedOver
<1> QED
  BY <1>2, <1>3, <1>4, <1>5, <1>6, <1>7 DEF TaskStep

\* So do the first polls.
LEMMA PacedFirstPoll ==
    ASSUME ChainInv, NEW t \in Timers, Sleeping(t), NEW n \in Nat, InPace(t, n),
           Initialise(t) \/ FirstPollPending(t)
    PROVE  InPace(t, n)'
BY PeriodsAssumption
   DEF ChainInv, TimerTypeOK, Initialise, FirstPollPending, Sleeping, InPace

\* The clock: nobody has anything to do, so that the task still sleeps.
LEMMA SleepingTick ==
    ASSUME ChainInv, NEW t \in Timers, Sleeping(t), Elapse,
           ~Emits(t), stream[t] # "initialising"
    PROVE  Sleeping(t)'
<1>1. period[t] \in Nat /\ left[t] \in Nat /\ fired[t] \in Nat
  BY PeriodsAssumption DEF ChainInv, TimerTypeOK
<1>2. /\ left'[t] = IF task[t] \in {"running", "alone"} /\ left[t] > 0
                    THEN left[t] - 1 ELSE left[t]
      /\ UNCHANGED <<stream, task, fired, period, commands, resetter>>
  BY DEF Elapse
<1> QED
  BY <1>1, <1>2 DEF Sleeping, Emits

\* While its stream is polled and its resetter lives, it is the one that
\* brings the emission nearer.
LEMMA PacedTick ==
    ASSUME ChainInv, NEW t \in Timers, Sleeping(t), Elapse, ~TaskReady(t), resetter[t],
           stream[t] = "held", fired[t] = 0, NEW n \in Nat, InPace(t, n)
    PROVE  InPace(t, n + 1)'
<1>1. period[t] \in Nat /\ left[t] \in Nat /\ fired[t] \in Nat
  BY PeriodsAssumption DEF ChainInv, TimerTypeOK
<1>2. /\ left'[t] = IF task[t] \in {"running", "alone"} /\ left[t] > 0
                    THEN left[t] - 1 ELSE left[t]
      /\ UNCHANGED <<stream, task, fired, period, commands, resetter>>
  BY DEF Elapse
<1>3. task[t] = "running"
  BY DEF ChainInv, TimerTypeOK, HandedOver, TaskState, TaskReady, Sleeping
<1> QED
  BY <1>1, <1>2, <1>3 DEF InPace, TaskReady
=============================================================================
