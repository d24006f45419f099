-------------------------- MODULE ResettableTimer --------------------------
(***************************************************************************)
(* src/asynchronous/delayable_stream.rs.  A ResettableTimer is a stream    *)
(* that emits when its period has passed.  The waiting is done by a task:  *)
(* it sleeps, listens to the commands of the ResettableTimerResetter, and, *)
(* when it fires, spawns its own successor and ends.  The stream follows   *)
(* that chain by the handles the tasks leave behind, one for each poll;    *)
(* only the last task of the chain still runs.                             *)
(*                                                                         *)
(* Time is the number of ticks that a sleep has left.  Periods are in      *)
(* ticks; 0 is the period of a timer that waits for a command only.        *)
(***************************************************************************)
EXTENDS Integers, Channel

CONSTANTS Timers,       \* the timers
          Periods,      \* the periods a timer may be given
          MaxBacklog    \* bound: tasks that fired and were not polled yet

ASSUME PeriodsAssumption == Periods \subseteq Nat /\ 0 \in Periods
ASSUME MaxBacklogAssumption == MaxBacklog \in Nat \ {0}

VARIABLES
    stream,    \* stream[t]: the ResettableTimer, as its owner sees it
    task,      \* task[t]: the task at the end of the chain
    fired,     \* fired[t]: the tasks of the chain that ended and whose
               \* result the stream has not taken
    period,    \* period[t]: the period the task at the end works with
    left,      \* left[t]: the ticks its sleep has left
    commands,  \* commands[t]: the channel of ResettableTimerCommands
    resetter   \* resetter[t]: whether the ResettableTimerResetter lives

timerVars == <<stream, task, fired, period, left, commands, resetter>>

\* ResettableTimerCommand: a Reset keeps the period.
Reset == [type |-> "Reset"]
ChangePeriod(p) == [type |-> "ChangePeriod", period |-> p]
Command == {Reset} \cup [type : {"ChangePeriod"}, period : Periods]
NewPeriod(cmd, p) == IF cmd.type = "ChangePeriod" THEN cmd.period ELSE p

StreamState == {"absent", "unpolled", "initialising", "held", "ended", "dropped"}
\* "alone" is create_task_no_receiver, "stalled" is pending(), "aborted" is a
\* task that abort() was called on and that tokio has not dropped yet.
TaskState == {"none", "spawned", "running", "alone", "stalled", "aborted"}

TimerTypeOK ==
    /\ stream \in [Timers -> StreamState]
    /\ task \in [Timers -> TaskState]
    /\ fired \in [Timers -> Nat]
    /\ period \in [Timers -> Periods]
    /\ left \in [Timers -> Nat]
    /\ commands \in [Timers -> ChannelOf(Command)]
    /\ resetter \in [Timers -> BOOLEAN]

TimerInit ==
    /\ stream = [t \in Timers |-> "absent"]
    /\ task = [t \in Timers |-> "none"]
    /\ fired = [t \in Timers |-> 0]
    /\ period = [t \in Timers |-> 0]
    /\ left = [t \in Timers |-> 0]
    /\ commands = [t \in Timers |-> Dropped]
    /\ resetter = [t \in Timers |-> FALSE]

-----------------------------------------------------------------------------
(* The owner of the stream, and the owner of the resetter.                 *)

\* ResettableTimer::create and default, for the timers in DOMAIN ps.
CreateTimers(ps) ==
    /\ \A t \in DOMAIN ps : stream[t] = "absent"
    /\ stream' = [t \in Timers |-> IF t \in DOMAIN ps THEN "unpolled" ELSE stream[t]]
    /\ period' = [t \in Timers |-> IF t \in DOMAIN ps THEN ps[t] ELSE period[t]]
    /\ commands' = [t \in Timers |-> IF t \in DOMAIN ps THEN NewChannel ELSE commands[t]]
    /\ resetter' = [t \in Timers |-> t \in DOMAIN ps \/ resetter[t]]
    /\ UNCHANGED <<task, fired, left>>

\* poll_next, the first time: initialise() spawns the first task of the chain ...
Initialise(t) ==
    /\ stream[t] = "unpolled"
    /\ stream' = [stream EXCEPT ![t] = "initialising"]
    /\ task' = [task EXCEPT ![t] = "spawned"]
    /\ UNCHANGED <<fired, period, left, commands, resetter>>

\* ... and polls it.  That it has not fired yet is the rule, ...
FirstPollPending(t) ==
    /\ stream[t] = "initialising" /\ fired[t] = 0
    /\ stream' = [stream EXCEPT ![t] = "held"]
    /\ UNCHANGED <<task, fired, period, left, commands, resetter>>

\* ... for if it has, its result is mapped to None, and its successor is
\* detached: the stream ends.
FirstPollReady(t) ==
    /\ stream[t] = "initialising" /\ fired[t] > 0
    /\ stream' = [stream EXCEPT ![t] = "ended"]
    /\ fired' = [fired EXCEPT ![t] = 0]
    /\ UNCHANGED <<task, period, left, commands, resetter>>

\* Mutant: it emits without asking whether the task has fired.
PollExistingTaskBlindly(t) ==
    /\ stream[t] = "held"
    /\ fired' = [fired EXCEPT ![t] = @ - 1]
    /\ UNCHANGED <<stream, task, period, left, commands, resetter>>

\* poll_next, later: poll_existing_task finds a task that fired, takes the
\* handle of the next one from it, and emits.
Emits(t) == stream[t] = "held" /\ fired[t] > 0
PollExistingTask(t) ==
    /\ Emits(t)
    /\ fired' = [fired EXCEPT ![t] = @ - 1]
    /\ UNCHANGED <<stream, task, period, left, commands, resetter>>

\* ResettableTimerResetter::reset and change_period; an Err if there is no
\* receiver any more.
CanCommand(t) == commands[t].open

\* One step of the owners of several timers: they send commands to the timers
\* in DOMAIN sent, drop the resetters of those in quit, and the streams of
\* those in gone.  Drop for ResettableTimer aborts the task whose handle it
\* holds.  If that one has fired, the task that runs is a successor of it, and
\* goes on, as it does after FirstPollReady.  The results along the chain are
\* dropped with it, the receiver with a stream that was never polled.
OwnersStep(sent, quit, gone) ==
    /\ commands' = [t \in Timers |->
         IF t \in gone /\ stream[t] = "unpolled" THEN Dropped
         ELSE IF t \in DOMAIN sent THEN Push(commands[t], sent[t]) ELSE commands[t]]
    /\ resetter' = [t \in Timers |-> resetter[t] /\ t \notin quit]
    /\ stream' = [t \in Timers |-> IF t \in gone THEN "dropped" ELSE stream[t]]
    /\ task' = [t \in Timers |->
         IF t \in gone /\ stream[t] = "held" /\ fired[t] = 0 THEN "aborted" ELSE task[t]]
    /\ fired' = [t \in Timers |-> IF t \in gone THEN 0 ELSE fired[t]]
    /\ UNCHANGED <<period, left>>

Nothing == [t \in {} |-> Reset]

SendCommand(t, cmd) == resetter[t] /\ OwnersStep([x \in {t} |-> cmd], {}, {})
DropResetter(t) == resetter[t] /\ OwnersStep(Nothing, {t}, {})
Droppable(t) == stream[t] \in {"unpolled", "held", "ended"}
Drop(t) == Droppable(t) /\ OwnersStep(Nothing, {}, {t})

\* Mutant: what is aborted is the task that fired, not its successor.
NextAndDropAbortsFired(t) ==
    /\ stream[t] \in {"initialising", "held"} /\ fired[t] > 0
    /\ stream' = [stream EXCEPT ![t] = "dropped"]
    /\ fired' = [fired EXCEPT ![t] = 0]
    /\ UNCHANGED <<task, period, left, commands, resetter>>

\* An owner that waits for one emission, or the end, and drops the stream.
NextAndDrop(t) ==
    /\ stream[t] \in {"initialising", "held"} /\ fired[t] > 0
    /\ stream' = [stream EXCEPT ![t] = "dropped"]
    /\ task' = IF stream[t] = "held" /\ fired[t] = 1
               THEN [task EXCEPT ![t] = "aborted"] ELSE task
    /\ fired' = [fired EXCEPT ![t] = 0]
    /\ UNCHANGED <<period, left, commands, resetter>>

-----------------------------------------------------------------------------
(* The task: create_task_with_receiver, create_task_no_receiver.           *)

\* The first poll of a spawned task begins its sleep.
Start(t) ==
    /\ task[t] = "spawned"
    /\ task' = [task EXCEPT ![t] = "running"]
    /\ left' = [left EXCEPT ![t] = period[t]]
    /\ UNCHANGED <<stream, fired, period, commands, resetter>>

\* Mutant: the sleep goes on as it was.
HandleCommandKeepsSleep(t) ==
    /\ task[t] = "running"
    /\ Ready(commands[t])
    /\ commands' = [commands EXCEPT ![t] = Pop(@)]
    /\ period' = [period EXCEPT ![t] = NewPeriod(First(commands[t]), @)]
    /\ UNCHANGED <<stream, task, fired, left, resetter>>

\* A command wins the select!, or is what a timer without period waits for:
\* the sleep begins anew.
HandleCommand(t) ==
    /\ task[t] = "running"
    /\ Ready(commands[t])
    /\ commands' = [commands EXCEPT ![t] = Pop(@)]
    /\ period' = [period EXCEPT ![t] = NewPeriod(First(commands[t]), @)]
    /\ left' = [left EXCEPT ![t] = period'[t]]
    /\ UNCHANGED <<stream, task, fired, resetter>>

\* Mutant: it waits for ever, whatever its period.
ResetterGoneStalls(t) ==
    /\ task[t] = "running"
    /\ ~Ready(commands[t]) /\ ~resetter[t]
    /\ task' = [task EXCEPT ![t] = "stalled"]
    /\ UNCHANGED <<stream, fired, period, left, commands, resetter>>

\* recv() yields None: nobody can reset the timer any more.  It waits again,
\* without commands, or for ever.
ResetterGone(t) ==
    /\ task[t] = "running"
    /\ ~Ready(commands[t]) /\ ~resetter[t]
    /\ task' = [task EXCEPT ![t] = IF period[t] = 0 THEN "stalled" ELSE "alone"]
    /\ left' = [left EXCEPT ![t] = period[t]]
    /\ UNCHANGED <<stream, fired, period, commands, resetter>>

\* What is left of a task whose handle nobody holds is dropped with it.
Fired(t) == fired' = IF stream[t] \in {"initialising", "held"}
                     THEN [fired EXCEPT ![t] = @ + 1] ELSE fired

\* Mutant: the successor is not spawned.
ExpireWithoutSuccessor(t) ==
    /\ task[t] = "running" /\ period[t] > 0 /\ left[t] = 0
    /\ fired[t] < MaxBacklog
    /\ Fired(t)
    /\ task' = [task EXCEPT ![t] = "none"]
    /\ UNCHANGED <<stream, period, left, commands, resetter>>

\* Mutant: the successor is created without the receiver.
ExpireLosesReceiver(t) ==
    /\ task[t] = "running" /\ period[t] > 0 /\ left[t] = 0
    /\ fired[t] < MaxBacklog
    /\ Fired(t)
    /\ task' = [task EXCEPT ![t] = "alone"]
    /\ left' = [left EXCEPT ![t] = period[t]]
    /\ commands' = [commands EXCEPT ![t] = Dropped]
    /\ UNCHANGED <<stream, period, resetter>>

\* The sleep wins the select!, against a command that may be there as well:
\* the task ends, and its successor has the receiver.
Expire(t) ==
    /\ task[t] = "running" /\ period[t] > 0 /\ left[t] = 0
    /\ fired[t] < MaxBacklog
    /\ Fired(t)
    /\ task' = [task EXCEPT ![t] = "spawned"]
    /\ UNCHANGED <<stream, period, left, commands, resetter>>

\* Without a receiver; the successor's sleep begins when it is created.  The
\* receiver goes with the frames of the task, though nobody can see that.
ExpireAlone(t) ==
    /\ task[t] = "alone" /\ left[t] = 0
    /\ fired[t] < MaxBacklog
    /\ Fired(t)
    /\ left' = [left EXCEPT ![t] = period[t]]
    /\ commands' = [commands EXCEPT ![t] = Dropped]
    /\ UNCHANGED <<stream, task, period, resetter>>

\* tokio drops an aborted task when its turn comes.
Cancel(t) ==
    /\ task[t] = "aborted"
    /\ task' = [task EXCEPT ![t] = "none"]
    /\ commands' = [commands EXCEPT ![t] = Dropped]
    /\ UNCHANGED <<stream, fired, period, left, resetter>>

TaskStep(t) == \/ Start(t) \/ HandleCommand(t) \/ ResetterGone(t)
               \/ Expire(t) \/ ExpireAlone(t) \/ Cancel(t)

\* The task of t has something to do, and does not just sleep.
TaskReady(t) ==
    \/ task[t] \in {"spawned", "aborted"}
    \/ task[t] = "running" /\ (Ready(commands[t]) \/ ~resetter[t])
    \/ task[t] = "running" /\ period[t] > 0 /\ left[t] = 0
    \/ task[t] = "alone" /\ left[t] = 0

\* tokio::time::sleep: a tick of the clock, for all sleeps.
Elapse ==
    /\ left' = [t \in Timers |-> IF task[t] \in {"running", "alone"} /\ left[t] > 0
                                 THEN left[t] - 1 ELSE left[t]]
    /\ UNCHANGED <<stream, task, fired, period, commands, resetter>>
=============================================================================
