----------------------------- MODULE OpenTimer -----------------------------
(***************************************************************************)
(* Timers whose owners poll, reset, change and drop them as they like.     *)
(*                                                                         *)
(* On a prompt machine time passes only when nobody has anything to do:    *)
(* tasks are polled at once, and so are streams that can emit.  Otherwise  *)
(* a task may be kept waiting for any time, as by a busy scheduler.        *)
(***************************************************************************)
EXTENDS ResettableTimer

CONSTANT MaxCommands   \* bound: commands in a channel

VARIABLES
    prompt,    \* whether the machine is prompt; it stays what it is
    promise,   \* promise[t]: the ticks of silence that the last command which
               \* came in time has left (history)
    idle       \* idle[t]: the ticks since the last emission or command, or
               \* since the first poll (history)

history == <<promise, idle>>
vars == <<timerVars, history, prompt>>

LongestPeriod == CHOOSE p \in Periods : \A q \in Periods : q <= p

\* The period the timer will have when all its commands have been handled.
FinalPeriod(t, cmds) ==
    LET changes == {k \in DOMAIN cmds : cmds[k].type = "ChangePeriod"}
    IN  IF changes = {} THEN period[t]
        ELSE cmds[CHOOSE k \in changes : \A l \in changes : l <= k].period

\* Neither has the countdown run out, nor is there an emission to be polled.
InTime(t) == fired[t] = 0 /\ ~(task[t] = "running" /\ period[t] > 0 /\ left[t] = 0)

Create(t) ==
    /\ \E p \in Periods : CreateTimers([x \in {t} |-> p])
    /\ UNCHANGED history

FirstPoll(t) ==
    /\ FirstPollPending(t) \/ FirstPollReady(t)
    /\ idle' = [idle EXCEPT ![t] = 0]
    /\ UNCHANGED promise

Poll(t) ==
    /\ PollExistingTask(t)
    /\ idle' = [idle EXCEPT ![t] = 0]
    /\ UNCHANGED promise

Order(t, cmd) ==
    /\ Len(commands[t].queue) < MaxCommands
    /\ SendCommand(t, cmd)
    /\ promise' = [promise EXCEPT ![t] =
                     IF InTime(t) THEN FinalPeriod(t, commands'[t].queue) ELSE @]
    /\ idle' = [idle EXCEPT ![t] = 0]

Abandon(t) ==
    /\ DropResetter(t)
    /\ idle' = [idle EXCEPT ![t] = 0]
    /\ UNCHANGED promise

OwnerStep(t) ==
    \/ Create(t)
    \/ Initialise(t) /\ UNCHANGED history
    \/ FirstPoll(t)
    \/ Poll(t)
    \/ \E cmd \in Command : Order(t, cmd)
    \/ Abandon(t)
    \/ Drop(t) /\ UNCHANGED history

Busy(t) == TaskReady(t) \/ Emits(t) \/ stream[t] = "initialising"

Tick ==
    /\ prompt => \A t \in Timers : ~Busy(t)
    /\ Elapse
    /\ promise' = [t \in Timers |-> IF promise[t] > 0 THEN promise[t] - 1 ELSE 0]
    /\ idle' = [t \in Timers |-> IF idle[t] <= LongestPeriod THEN idle[t] + 1 ELSE idle[t]]
    /\ UNCHANGED prompt

Init == /\ TimerInit
        /\ prompt \in BOOLEAN
        /\ promise = [t \in Timers |-> 0]
        /\ idle = [t \in Timers |-> 0]

Run(t) == TaskStep(t) /\ UNCHANGED <<history, prompt>>

Next == \/ \E t \in Timers : OwnerStep(t) /\ UNCHANGED prompt
        \/ \E t \in Timers : Run(t)
        \/ Tick

Spec == Init /\ [][Next]_vars

\* tokio runs every task that is ready, and time passes.
FairSpec == Spec /\ WF_vars(Tick) /\ \A t \in Timers : WF_vars(Run(t))

TypeOK == /\ TimerTypeOK
          /\ prompt \in BOOLEAN
          /\ promise \in [Timers -> Nat]
          /\ idle \in [Timers -> Nat]

-----------------------------------------------------------------------------
(* What a timer owes its owners.                                           *)

\* A reset or a change of period that comes while the timer still counts down
\* keeps it silent for a whole new period (delayable_stream.rs:24, 34), though
\* the countdown is in another task and the command in a channel.  It takes a
\* prompt machine: on another one the sleep may end before the command is seen.
SilentAfterCommand == prompt => \A t \in Timers : promise[t] > 0 => fired[t] = 0

\* On a prompt machine a timer is never late: as long as its stream is polled, it emits within a
\* period of the last emission, command, or first poll, also when nobody can
\* reset it any more (delayable_stream.rs:134) and from one task of the chain
\* to the next.
FiresWithinPeriod ==
    prompt => \A t \in Timers : stream[t] = "held" /\ period[t] > 0 => idle[t] <= period[t]

\* reset() and change_period() succeed for as long as the stream has not been
\* dropped, which the session relies on (client.rs:375-377): the receiver is
\* handed from task to task and is at no time lost.
ResetterIsHeard ==
    \A t \in Timers : resetter[t] /\ stream[t] \notin {"absent", "dropped"} => CanCommand(t)

\* When the resetter is gone, a timer with a period goes on: it fires again
\* and again until it is dropped.
FiresWithoutResetter ==
    \A t \in Timers :
        (stream[t] = "held" /\ period[t] > 0 /\ ~resetter[t] /\ ~Ready(commands[t]))
            ~> (fired[t] > 0 \/ stream[t] = "dropped")
=============================================================================
