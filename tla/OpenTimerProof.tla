--------------------------- MODULE OpenTimerProof ---------------------------
(***************************************************************************)
(* What a ResettableTimer promises, for any number of timers, any periods  *)
(* and any bounds: its resetter is heard for as long as the stream lives,  *)
(* and on a prompt machine it never fires late, nor within a period of a   *)
(* command that came in time.                                              *)
(***************************************************************************)
EXTENDS OpenTimer, TimerTheorems, WellFoundedInduction

\* How far the task is: what is left of its sleep is never more than what is
\* left of the period, counted from the last emission or command.  Whoever has
\* something else to do than to sleep has been idle for no tick at all.
Asleep(t) ==
    /\ task[t] \in {"running", "alone"} => left[t] <= period[t]
    /\ task[t] \in {"alone", "stalled"} => ~resetter[t] /\ ~Ready(commands[t])
    /\ task[t] = "stalled" => period[t] = 0
Unhandled(t) ==
    /\ Ready(commands[t]) => idle[t] = 0
    /\ ~resetter[t] /\ task[t] \in {"spawned", "running"} => idle[t] = 0
    /\ fired[t] = 0 /\ task[t] = "spawned" => idle[t] = 0
OnTime(t) ==
    period[t] > 0 =>
        /\ idle[t] <= period[t]
        /\ fired[t] = 0 /\ task[t] \in {"running", "alone"} /\ ~Ready(commands[t]) =>
             idle[t] + left[t] <= period[t]
PaceOf(t) == Asleep(t) /\ (stream[t] = "held" => Unhandled(t) /\ OnTime(t))

PaceInv == idle \in [Timers -> Nat] /\ \A t \in Timers : PaceOf(t)
Pace == prompt => PaceInv

-----------------------------------------------------------------------------
(* Types, and the receiver.                                                *)

\* create() and default() of one timer.
LEMMA CreateChain ==
    ASSUME ChainInv, NEW t \in Timers, Create(t)
    PROVE  ChainInv'
<1>1. PICK p \in Periods : CreateTimers([x \in {t} |-> p])
  BY DEF Create
<1>2. stream[t] = "absent"
  BY <1>1 DEF CreateTimers
<1>3. /\ stream' = [stream EXCEPT ![t] = "unpolled"]
      /\ period' = [period EXCEPT ![t] = p]
      /\ commands' = [commands EXCEPT ![t] = NewChannel]
      /\ resetter' = [resetter EXCEPT ![t] = TRUE]
      /\ UNCHANGED <<task, fired, left>>
  BY <1>1 DEF CreateTimers, ChainInv, TimerTypeOK
<1>4. NewChannel \in ChannelOf(Command) /\ NewChannel.open
  BY EmptyChannels
<1>5. TimerTypeOK'
  BY <1>3, <1>4 DEF ChainInv, TimerTypeOK, StreamState
<1>6. ASSUME NEW x \in Timers
      PROVE  HandedOver(x)'
  BY <1>2, <1>3, <1>4 DEF ChainInv, TimerTypeOK, HandedOver
<1> QED
  BY <1>5, <1>6 DEF ChainInv

\* Every step of an owner keeps the receiver where it can be reached.
LEMMA OwnerChain ==
    ASSUME ChainInv, NEW t \in Timers, OwnerStep(t)
    PROVE  ChainInv'
<1> USE DEF ChainInv
<1>1. CASE Create(t)
  BY <1>1, CreateChain
<1>2. CASE Initialise(t)
  BY <1>2 DEF Initialise, TimerTypeOK, HandedOver, StreamState, TaskState
<1>3. CASE FirstPoll(t)
  BY <1>3 DEF FirstPoll, FirstPollPending, FirstPollReady, TimerTypeOK, HandedOver, StreamState
<1>4. CASE Poll(t)
  BY <1>4 DEF Poll, PollExistingTask, Emits, TimerTypeOK, HandedOver
<1>5. ASSUME NEW cmd \in Command, Order(t, cmd)
      PROVE  ChainInv'
  <2>1. SendCommand(t, cmd)
    BY <1>5 DEF Order
  <2> QED
    BY <2>1, OrderEffect DEF TimerTypeOK, HandedOver
<1>6. CASE Abandon(t)
  BY <1>6, AbandonEffect DEF Abandon, TimerTypeOK, HandedOver
<1>7. CASE Drop(t)
  <2>1. Droppable(t)
    BY <1>7 DEF Drop
  <2>2. TimerTypeOK'
    BY <1>7, DropEffect DEF TimerTypeOK, StreamState
  <2>3. ASSUME NEW x \in Timers
        PROVE  HandedOver(x)'
    BY <1>7, <2>1, DropEffect DEF TimerTypeOK, HandedOver, Droppable
  <2> QED
    BY <2>2, <2>3
<1> QED
  BY <1>1, <1>2, <1>3, <1>4, <1>5, <1>6, <1>7 DEF OwnerStep

\* The receiver is where it should be, at all times.
LEMMA Chain == Spec => []ChainInv
<1>1. Init => ChainInv
  <2>1. 0 \in Periods /\ Dropped \in ChannelOf(Command)
    BY EmptyChannels, PeriodsAssumption
  <2> QED
    BY <2>1 DEF Init, TimerInit, ChainInv, TimerTypeOK, HandedOver, StreamState, TaskState
<1>2. ASSUME ChainInv, [Next]_vars
      PROVE  ChainInv'
  <2>1. CASE UNCHANGED vars
    BY <1>2, <2>1 DEF vars, timerVars, ChainInv, TimerTypeOK, HandedOver
  <2>2. CASE Tick
    BY <1>2, <2>2, TickChain DEF Tick
  <2> QED
    BY <1>2, <2>1, <2>2, OwnerChain, TaskChain DEF Next, Run
<1> QED
  BY <1>1, <1>2, PTL DEF Spec

\* reset() and change_period() find a receiver for as long as the stream has
\* not been dropped, from whatever task of the chain to whatever other, prompt
\* machine or not (delayable_stream.rs:129-131).
THEOREM ResetterHeard == Spec => []ResetterIsHeard
<1>1. ChainInv => ResetterIsHeard
  BY DEF ChainInv, HandedOver, ResetterIsHeard, CanCommand
<1> QED
  BY <1>1, Chain, PTL

-----------------------------------------------------------------------------
(* The pace of a prompt machine.                                           *)

\* Sends, drops and polls of an owner start the count of idle ticks anew.
LEMMA OwnerPace ==
    ASSUME ChainInv, PaceInv, NEW t \in Timers, OwnerStep(t)
    PROVE  PaceInv'
<1> USE DEF ChainInv, PaceInv
<1>1. CASE Create(t)
  <2>1. PICK p \in Periods : CreateTimers([x \in {t} |-> p])
    BY <1>1 DEF Create
  <2>2. /\ stream[t] = "absent" /\ stream'[t] = "unpolled"
        /\ \A x \in Timers \ {t} : /\ stream'[x] = stream[x] /\ period'[x] = period[x]
                                   /\ commands'[x] = commands[x] /\ resetter'[x] = resetter[x]
        /\ UNCHANGED <<task, fired, left, idle>>
    BY <1>1, <2>1 DEF Create, CreateTimers, TimerTypeOK, history
  <2>3. task[t] = "none"
    BY <2>2 DEF HandedOver
  <2>4. ASSUME NEW x \in Timers
        PROVE  PaceOf(x)'
    BY <2>2, <2>3 DEF PaceOf, Asleep, Unhandled, OnTime
  <2> QED
    BY <2>2, <2>4
<1>2. CASE Initialise(t) /\ UNCHANGED history
  <2>1. /\ stream'[t] = "initialising" /\ task'[t] = "spawned"
        /\ \A x \in Timers \ {t} : stream'[x] = stream[x] /\ task'[x] = task[x]
        /\ UNCHANGED <<fired, period, left, commands, resetter, idle>>
    BY <1>2 DEF Initialise, history, TimerTypeOK
  <2>2. PaceOf(t)'
    BY <2>1 DEF PaceOf, Asleep
  <2>3. ASSUME NEW x \in Timers \ {t}
        PROVE  PaceOf(x)'
    BY <2>1 DEF PaceOf, Asleep, Unhandled, OnTime
  <2> QED
    BY <2>1, <2>2, <2>3
<1>3. CASE FirstPoll(t)
  <2>1. /\ idle' = [idle EXCEPT ![t] = 0]
        /\ stream'[t] \in {"held", "ended"}
        /\ stream'[t] = "held" => fired'[t] = fired[t]
        /\ \A x \in Timers \ {t} : stream'[x] = stream[x] /\ fired'[x] = fired[x]
        /\ UNCHANGED <<task, period, left, commands, resetter>>
    BY <1>3 DEF FirstPoll, FirstPollPending, FirstPollReady, TimerTypeOK
  <2>2. period[t] \in Nat /\ left[t] \in Nat
    BY PeriodsAssumption DEF TimerTypeOK
  <2>3. PaceOf(t)'
    BY <2>1, <2>2 DEF PaceOf, Asleep, Unhandled, OnTime
  <2>4. ASSUME NEW x \in Timers \ {t}
        PROVE  PaceOf(x)'
    BY <2>1 DEF PaceOf, Asleep, Unhandled, OnTime
  <2> QED
    BY <2>1, <2>3, <2>4
<1>4. CASE Poll(t)
  <2>1. /\ idle' = [idle EXCEPT ![t] = 0]
        /\ \A x \in Timers \ {t} : fired'[x] = fired[x]
        /\ UNCHANGED <<stream, task, period, left, commands, resetter>>
    BY <1>4 DEF Poll, PollExistingTask, TimerTypeOK
  <2>2. period[t] \in Nat /\ left[t] \in Nat
    BY PeriodsAssumption DEF TimerTypeOK
  <2>3. PaceOf(t)'
    BY <2>1, <2>2 DEF PaceOf, Asleep, Unhandled, OnTime
  <2>4. ASSUME NEW x \in Timers \ {t}
        PROVE  PaceOf(x)'
    BY <2>1 DEF PaceOf, Asleep, Unhandled, OnTime
  <2> QED
    BY <2>1, <2>3, <2>4
<1>5. ASSUME NEW cmd \in Command, Order(t, cmd)
      PROVE  PaceInv'
  <2>1. SendCommand(t, cmd) /\ idle' = [idle EXCEPT ![t] = 0]
    BY <1>5 DEF Order
  <2>2. /\ resetter[t]
        /\ \A x \in Timers \ {t} : commands'[x] = commands[x]
        /\ UNCHANGED <<stream, task, fired, period, left, resetter>>
    BY <2>1, OrderEffect DEF TimerTypeOK
  <2>3. period[t] \in Nat /\ left[t] \in Nat
    BY PeriodsAssumption DEF TimerTypeOK
  <2>4. PaceOf(t)'
    BY <2>1, <2>2, <2>3 DEF PaceOf, Asleep, Unhandled, OnTime
  <2>5. ASSUME NEW x \in Timers \ {t}
        PROVE  PaceOf(x)'
    BY <2>1, <2>2 DEF PaceOf, Asleep, Unhandled, OnTime
  <2> QED
    BY <2>1, <2>4, <2>5
<1>6. CASE Abandon(t)
  <2>1. /\ idle' = [idle EXCEPT ![t] = 0] /\ ~resetter'[t]
        /\ \A x \in Timers \ {t} : resetter'[x] = resetter[x]
        /\ UNCHANGED <<stream, task, fired, period, left, commands>>
    BY <1>6, AbandonEffect DEF Abandon
  <2>2. period[t] \in Nat /\ left[t] \in Nat
    BY PeriodsAssumption DEF TimerTypeOK
  <2>3. PaceOf(t)'
    BY <2>1, <2>2 DEF PaceOf, Asleep, Unhandled, OnTime
  <2>4. ASSUME NEW x \in Timers \ {t}
        PROVE  PaceOf(x)'
    BY <2>1 DEF PaceOf, Asleep, Unhandled, OnTime
  <2> QED
    BY <2>1, <2>3, <2>4
<1>7. CASE Drop(t) /\ UNCHANGED history
  <2>1. /\ stream'[t] = "dropped" /\ task'[t] \in {task[t], "aborted"}
        /\ commands'[t] \in {commands[t], Dropped}
        /\ \A x \in Timers \ {t} : /\ stream'[x] = stream[x] /\ task'[x] = task[x]
                                   /\ fired'[x] = fired[x] /\ commands'[x] = commands[x]
        /\ UNCHANGED <<period, left, resetter, idle>>
    BY <1>7, DropEffect DEF TimerTypeOK, history
  <2>2. ~Ready(Dropped)
    BY DEF Ready, Dropped
  <2>3. PaceOf(t)'
    BY <2>1, <2>2 DEF PaceOf, Asleep
  <2>4. ASSUME NEW x \in Timers \ {t}
        PROVE  PaceOf(x)'
    BY <2>1 DEF PaceOf, Asleep, Unhandled, OnTime
  <2> QED
    BY <2>1, <2>3, <2>4
<1> QED
  BY <1>1, <1>2, <1>3, <1>4, <1>5, <1>6, <1>7 DEF OwnerStep

\* A task that begins to sleep, begins with a period and a count of no ticks.
LEMMA TaskPace ==
    ASSUME ChainInv, PaceInv, NEW t \in Timers, TaskStep(t), UNCHANGED history
    PROVE  PaceInv'
<1> USE DEF ChainInv, PaceInv
<1>1. UNCHANGED idle /\ UNCHANGED stream
  BY DEF history, TaskStep, Start, HandleCommand, ResetterGone, Expire, ExpireAlone, Cancel
<1>2. /\ period[t] \in Nat /\ left[t] \in Nat /\ fired[t] \in Nat
      /\ idle[t] \in Nat /\ 0 \in Nat
  BY PeriodsAssumption DEF TimerTypeOK
<1>3. ASSUME NEW x \in Timers \ {t}
      PROVE  PaceOf(x)'
  <2>1. /\ task'[x] = task[x] /\ fired'[x] = fired[x] /\ period'[x] = period[x]
        /\ left'[x] = left[x] /\ commands'[x] = commands[x] /\ resetter'[x] = resetter[x]
    BY DEF TaskStep, Start, HandleCommand, ResetterGone, Expire, ExpireAlone, Cancel, Fired,
           TimerTypeOK
  <2> QED
    BY <1>1, <2>1 DEF PaceOf, Asleep, Unhandled, OnTime
<1>4. CASE Start(t)
  <2>1. /\ task[t] = "spawned" /\ task'[t] = "running" /\ left'[t] = period[t]
        /\ UNCHANGED <<fired, period, commands, resetter>>
    BY <1>4 DEF Start, TimerTypeOK
  <2> QED
    BY <1>1, <1>2, <1>3, <2>1 DEF PaceOf, Asleep, Unhandled, OnTime
<1>5. CASE HandleCommand(t)
  <2>1. commands[t] \in ChannelOf(Command) /\ Ready(commands[t]) /\ period[t] \in Periods
    BY <1>5 DEF HandleCommand, TimerTypeOK
  <2>2. NewPeriod(First(commands[t]), period[t]) \in Nat
    BY <2>1, PopProperties, CommandTypes, PeriodsAssumption
  <2>3. /\ task[t] = "running" /\ task'[t] = "running" /\ left'[t] = period'[t]
        /\ period'[t] = NewPeriod(First(commands[t]), period[t])
        /\ UNCHANGED <<fired, resetter>>
    BY <1>5 DEF HandleCommand, TimerTypeOK
  <2> QED
    BY <1>1, <1>2, <1>3, <2>1, <2>2, <2>3 DEF PaceOf, Asleep, Unhandled, OnTime
<1>6. CASE ResetterGone(t)
  <2>1. /\ task[t] = "running" /\ ~Ready(commands[t]) /\ ~resetter[t]
        /\ task'[t] = IF period[t] = 0 THEN "stalled" ELSE "alone"
        /\ left'[t] = period[t]
        /\ UNCHANGED <<fired, period, commands, resetter>>
    BY <1>6 DEF ResetterGone, TimerTypeOK
  <2> QED
    BY <1>1, <1>2, <1>3, <2>1 DEF PaceOf, Asleep, Unhandled, OnTime
<1>7. CASE Expire(t)
  <2>1. /\ task[t] = "running" /\ task'[t] = "spawned"
        /\ stream[t] = "held" => fired'[t] = fired[t] + 1
        /\ UNCHANGED <<period, left, commands, resetter>>
    BY <1>7 DEF Expire, Fired, TimerTypeOK
  <2> QED
    BY <1>1, <1>2, <1>3, <2>1 DEF PaceOf, Asleep, Unhandled, OnTime
<1>8. CASE ExpireAlone(t)
  <2>1. /\ task[t] = "alone" /\ left'[t] = period[t] /\ commands'[t] = Dropped
        /\ stream[t] = "held" => fired'[t] = fired[t] + 1
        /\ UNCHANGED <<task, period, resetter>>
    BY <1>8 DEF ExpireAlone, Fired, TimerTypeOK
  <2>2. ~Ready(Dropped)
    BY DEF Ready, Dropped
  <2> QED
    BY <1>1, <1>2, <1>3, <2>1, <2>2 DEF PaceOf, Asleep, Unhandled, OnTime
<1>9. CASE Cancel(t)
  <2>1. stream[t] = "dropped" /\ task'[t] = "none"
    BY <1>9 DEF Cancel, HandedOver, TimerTypeOK
  <2> QED
    BY <1>1, <1>3, <2>1 DEF PaceOf, Asleep
<1> QED
  BY <1>4, <1>5, <1>6, <1>7, <1>8, <1>9 DEF TaskStep

\* Time passes only for those who sleep, and whose sleep has not run out.
LEMMA TickPace ==
    ASSUME ChainInv, PaceInv, prompt, Tick
    PROVE  PaceInv'
<1> USE DEF ChainInv, PaceInv
<1>1. \A t \in Timers : ~Busy(t)
  BY DEF Tick
<1>2. /\ UNCHANGED <<stream, task, fired, period, commands, resetter>>
      /\ left' = [t \in Timers |-> IF task[t] \in {"running", "alone"} /\ left[t] > 0
                                   THEN left[t] - 1 ELSE left[t]]
      /\ idle' = [t \in Timers |-> IF idle[t] <= LongestPeriod THEN idle[t] + 1 ELSE idle[t]]
  BY DEF Tick, Elapse
<1>3. idle' \in [Timers -> Nat]
  BY <1>2
<1>4. ASSUME NEW t \in Timers
      PROVE  PaceOf(t)'
  <2>1. /\ period[t] \in Nat /\ left[t] \in Nat /\ fired[t] \in Nat /\ idle[t] \in Nat
        /\ idle'[t] \in Nat /\ idle'[t] <= idle[t] + 1
        /\ left'[t] = IF task[t] \in {"running", "alone"} /\ left[t] > 0
                      THEN left[t] - 1 ELSE left[t]
    <3>1. /\ period[t] \in Nat /\ left[t] \in Nat /\ fired[t] \in Nat /\ idle[t] \in Nat
      BY PeriodsAssumption DEF TimerTypeOK
    <3>2. idle'[t] = idle[t] + 1 \/ idle'[t] = idle[t]
      BY <1>2
    <3>3. left'[t] = IF task[t] \in {"running", "alone"} /\ left[t] > 0
                     THEN left[t] - 1 ELSE left[t]
      BY <1>2
    <3> QED
      BY <3>1, <3>2, <3>3
  <2>2. Asleep(t)'
    BY <1>2, <2>1 DEF PaceOf, Asleep
  <2>3. ASSUME stream[t] = "held"
        PROVE  /\ fired[t] = 0 /\ task[t] \in {"running", "alone", "stalled"}
               /\ ~Ready(commands[t])
               /\ task[t] = "running" => resetter[t]
               /\ period[t] > 0 => task[t] # "stalled" /\ left[t] > 0
    <3>1. ~TaskReady(t) /\ fired[t] = 0
      BY <1>1, <2>1, <2>3 DEF Busy, Emits
    <3>2. task[t] \in TaskState /\ task[t] \notin {"none", "aborted"}
      BY <2>3 DEF HandedOver, TimerTypeOK
    <3> QED
      BY <2>1, <3>1, <3>2 DEF TaskReady, TaskState, PaceOf, Asleep
  <2>4. ASSUME stream[t] = "held"
        PROVE  Unhandled(t)' /\ OnTime(t)'
    BY <1>2, <2>1, <2>3, <2>4 DEF PaceOf, Unhandled, OnTime
  <2> QED
    BY <1>2, <2>2, <2>4 DEF PaceOf
<1> QED
  BY <1>3, <1>4

\* The pace is kept, at all times.
LEMMA Paced == Spec => []Pace
<1>1. Init => Pace
  BY DEF Init, TimerInit, Pace, PaceInv, PaceOf, Asleep
<1>2. ASSUME ChainInv, Pace, [Next]_vars
      PROVE  Pace'
  <2>1. SUFFICES ASSUME prompt'
                 PROVE  PaceInv'
    BY DEF Pace
  <2>2. prompt' = prompt
    BY <1>2 DEF vars, Next, Run, Tick
  <2>3. PaceInv
    BY <1>2, <2>1, <2>2 DEF Pace
  <2>4. CASE UNCHANGED vars
    BY <2>3, <2>4 DEF vars, timerVars, history, PaceInv, PaceOf, Asleep, Unhandled, OnTime
  <2>5. CASE Tick
    BY <1>2, <2>1, <2>2, <2>3, <2>5, TickPace
  <2>6. ASSUME NEW t \in Timers, OwnerStep(t)
        PROVE  PaceInv'
    BY <1>2, <2>3, <2>6, OwnerPace
  <2>7. ASSUME NEW t \in Timers, Run(t)
        PROVE  PaceInv'
    BY <1>2, <2>3, <2>7, TaskPace DEF Run, history
  <2> QED
    BY <1>2, <2>4, <2>5, <2>6, <2>7 DEF Next
<1> QED
  BY <1>1, <1>2, Chain, PTL DEF Spec

\* On a prompt machine a timer whose stream is polled is never late: it emits
\* within a period of its last emission, of the last command, or of its first
\* poll, for any periods, whatever commands come, when the resetter is dropped
\* too, and from one task of the chain to the next.
THEOREM Punctual == Spec => []FiresWithinPeriod
<1>1. Pace => FiresWithinPeriod
  BY DEF Pace, PaceInv, PaceOf, OnTime, FiresWithinPeriod
<1> QED
  BY <1>1, Paced, PTL

-----------------------------------------------------------------------------
(* The last change of period in a channel of commands.                     *)

Changes(cmds) == {k \in DOMAIN cmds : cmds[k].type = "ChangePeriod"}
IsLast(k, cmds) == k \in Changes(cmds) /\ \A l \in Changes(cmds) : l <= k
After(p, cmds) == IF Changes(cmds) = {} THEN p
                  ELSE cmds[CHOOSE k \in Changes(cmds) : \A l \in Changes(cmds) : l <= k].period

\* Positions in a channel: if there are any of a kind, one is the last.
LEMMA LargestPosition ==
    ASSUME NEW n \in Nat, NEW S \in SUBSET (1 .. n), S # {}
    PROVE  \E k \in S : \A l \in S : l <= k
<1> DEFINE R == OpToRel(<, Nat)
           T == {n - k : k \in S}
<1>1. T \subseteq Nat /\ T # {}
  <2>1. \A k \in S : n - k \in Nat
    OBVIOUS
  <2> QED
    BY <2>1
<1>2. PICK x \in T : \A y \in T : <<y, x>> \notin R
  <2> HIDE DEF T, R
  <2> QED
    BY <1>1, NatLessThanWellFounded, WFMin DEF R
<1>3. \A y \in T : ~(y < x)
  <2> HIDE DEF T
  <2> QED
    BY <1>1, <1>2, Zenon DEF OpToRel
<1>4. PICK k \in S : x = n - k
  BY <1>2
<1>5. ASSUME NEW l \in S
      PROVE  l <= k
  <2>1. ~(n - l < n - k)
    BY <1>3, <1>4
  <2> QED
    BY <2>1
<1> QED
  BY <1>5

\* The period at the end is that of the last change, ...
LEMMA LastChange ==
    ASSUME NEW p, NEW cmds \in Seq(Command), NEW k, IsLast(k, cmds)
    PROVE  After(p, cmds) = cmds[k].period
<1> DEFINE Greatest(j) == \A l \in Changes(cmds) : l <= j
<1>1. \A j \in Changes(cmds) : Greatest(j) => j = k
  BY DEF IsLast, Changes
<1>2. (CHOOSE j \in Changes(cmds) : Greatest(j)) = k
  <2>1. k \in Changes(cmds) /\ Greatest(k)
    BY DEF IsLast
  <2> QED
    BY <1>1, <2>1
<1>3. Changes(cmds) # {}
  BY DEF IsLast
<1> QED
  BY <1>2, <1>3 DEF After

\* ... or the one there is.
LEMMA NoChange ==
    ASSUME NEW p, NEW cmds, Changes(cmds) = {}
    PROVE  After(p, cmds) = p
BY DEF After

\* One of the two is the case.
LEMMA SomeLast ==
    ASSUME NEW cmds \in Seq(Command), Changes(cmds) # {}
    PROVE  \E k \in Changes(cmds) : IsLast(k, cmds)
<1>1. Len(cmds) \in Nat /\ Changes(cmds) \in SUBSET (1 .. Len(cmds))
  BY DEF Changes
<1> QED
  BY <1>1, LargestPosition DEF IsLast

\* The period at the end is a period.
LEMMA FinalPeriodType ==
    ASSUME NEW p \in Periods, NEW cmds \in Seq(Command)
    PROVE  After(p, cmds) \in Periods
<1>1. CASE Changes(cmds) = {}
  BY <1>1, NoChange
<1>2. ASSUME NEW k \in Changes(cmds), IsLast(k, cmds)
      PROVE  After(p, cmds) \in Periods
  <2>1. cmds[k] \in Command /\ cmds[k].type = "ChangePeriod"
    BY DEF Changes
  <2>2. cmds[k].period \in Periods
    BY <2>1 DEF Command, Reset
  <2> QED
    BY <1>2, <2>2, LastChange
<1> QED
  BY <1>1, <1>2, SomeLast

\* Taking a command and doing what it says leaves that period as it was.
LEMMA FinalPeriodAfterCommand ==
    ASSUME NEW p, NEW cmds \in Seq(Command), cmds # <<>>
    PROVE  After(NewPeriod(Head(cmds), p), Tail(cmds)) = After(p, cmds)
<1> DEFINE rest == Tail(cmds)
<1>1. /\ rest \in Seq(Command) /\ Len(cmds) \in Nat /\ Len(cmds) > 0
      /\ DOMAIN cmds = 1 .. Len(cmds) /\ DOMAIN rest = 1 .. Len(cmds) - 1
      /\ \A k \in 1 .. Len(cmds) - 1 : rest[k] = cmds[k + 1]
      /\ Head(cmds) = cmds[1]
  OBVIOUS
<1> HIDE DEF rest
<1>2. CASE Changes(rest) # {}
  <2>1. PICK k \in Changes(rest) : IsLast(k, rest)
    BY <1>1, <1>2, SomeLast
  <2>2. k \in 1 .. Len(cmds) - 1 /\ rest[k] = cmds[k + 1]
    BY <1>1 DEF Changes
  <2>3. k + 1 \in Changes(cmds)
    BY <1>1, <2>2 DEF Changes
  <2>4. ASSUME NEW l \in Changes(cmds)
        PROVE  l <= k + 1
    <3>1. CASE l = 1
      BY <2>2, <3>1
    <3>2. CASE l # 1
      <4>1. l - 1 \in Changes(rest)
        BY <1>1, <3>2 DEF Changes
      <4> QED
        BY <1>1, <2>1, <2>2, <4>1 DEF IsLast, Changes
    <3> QED
      BY <3>1, <3>2
  <2>5. IsLast(k + 1, cmds)
    BY <2>3, <2>4 DEF IsLast
  <2>6. After(p, cmds) = cmds[k + 1].period
    BY <2>5, LastChange
  <2>7. After(NewPeriod(Head(cmds), p), rest) = rest[k].period
    BY <1>1, <2>1, LastChange
  <2> QED
    BY <2>2, <2>6, <2>7 DEF rest
<1>3. CASE Changes(rest) = {}
  <2>1. After(NewPeriod(Head(cmds), p), rest) = NewPeriod(Head(cmds), p)
    BY <1>3, NoChange
  <2>2. ASSUME NEW l \in Changes(cmds)
        PROVE  l = 1
    <3>1. CASE l # 1
      <4>1. l - 1 \in Changes(rest)
        BY <1>1, <3>1 DEF Changes
      <4> QED
        BY <1>3, <4>1
    <3> QED
      BY <3>1
  <2>3. CASE cmds[1].type = "ChangePeriod"
    <3>1. IsLast(1, cmds)
      BY <1>1, <2>2, <2>3 DEF IsLast, Changes
    <3>2. After(p, cmds) = cmds[1].period
      BY <3>1, LastChange
    <3> QED
      BY <1>1, <2>1, <2>3, <3>2 DEF NewPeriod, rest
  <2>4. CASE cmds[1].type # "ChangePeriod"
    <3>1. Changes(cmds) = {}
      BY <2>2, <2>4 DEF Changes
    <3>2. After(p, cmds) = p
      BY <3>1, NoChange
    <3> QED
      BY <1>1, <2>1, <2>4, <3>2 DEF NewPeriod, rest
  <2> QED
    BY <2>3, <2>4
<1> QED
  BY <1>2, <1>3

\* The model's name for it.
LEMMA FinalPeriodIsAfter ==
    ASSUME NEW t, NEW cmds
    PROVE  FinalPeriod(t, cmds) = After(period[t], cmds)
BY DEF FinalPeriod, After, Changes

-----------------------------------------------------------------------------
(* The silence after a command.                                            *)

Live(t) == stream[t] \in {"unpolled", "initialising", "held"}
\* The command has been sent and not been seen, or the sleep has not begun.
Ahead(t) == task[t] \in {"none", "spawned"} \/ Ready(commands[t])

\* What a command promised is still to come: in the channel, or in the sleep.
\* A sleep that has run out, with a command behind it, owes nothing any more.
Quiet(t) ==
    /\ fired[t] > 0 => promise[t] = 0 /\ Live(t)
    /\ stream[t] = "absent" => promise[t] = 0 /\ ~resetter[t]
    /\ Live(t) =>
         /\ Ahead(t) => promise[t] <= After(period[t], commands[t].queue)
         /\ task[t] \in {"running", "alone"} /\ ~Ready(commands[t]) => promise[t] <= left[t]
         /\ task[t] = "stalled" => promise[t] = 0
         /\ task[t] = "running" /\ period[t] > 0 /\ left[t] = 0 => promise[t] = 0

QuietInv == PaceInv /\ \A t \in Timers : Quiet(t)
Silence == prompt => QuietInv

-----------------------------------------------------------------------------
(* Steps, and silence.                                                     *)

\* The queue of a timer is one of commands, and what it leads to is a period.
LEMMA QueueTypes ==
    ASSUME TimerTypeOK, NEW t \in Timers
    PROVE  /\ commands[t] \in ChannelOf(Command)
           /\ commands[t].queue \in Seq(Command)
           /\ period[t] \in Periods /\ period[t] \in Nat /\ left[t] \in Nat
           /\ After(period[t], commands[t].queue) \in Nat
<1>1. /\ commands[t] \in ChannelOf(Command) /\ period[t] \in Periods
      /\ period[t] \in Nat /\ left[t] \in Nat
  BY PeriodsAssumption DEF TimerTypeOK
<1>2. commands[t].queue \in Seq(Command)
  BY <1>1 DEF ChannelOf
<1>3. After(period[t], commands[t].queue) \in Periods
  BY <1>1, <1>2, FinalPeriodType
<1> QED
  BY <1>1, <1>2, <1>3, PeriodsAssumption

\* What a command promises when it is sent: the period it leads to.
LEMMA OrderPromise ==
    ASSUME TypeOK, NEW t \in Timers, NEW cmd \in Command, Order(t, cmd)
    PROVE  LET new == After(period[t], Push(commands[t], cmd).queue)
           IN  /\ new \in Nat
               /\ promise' = [promise EXCEPT ![t] = IF InTime(t) THEN new ELSE @]
<1> DEFINE ch == Push(commands[t], cmd)
<1>1. /\ SendCommand(t, cmd)
      /\ promise' = [promise EXCEPT ![t] =
                       IF InTime(t) THEN FinalPeriod(t, commands'[t].queue) ELSE @]
  BY DEF Order
<1>2. commands' = [commands EXCEPT ![t] = ch] /\ ch \in ChannelOf(Command)
  BY <1>1, OrderEffect DEF TypeOK
<1>3. commands'[t] = ch /\ ch.queue \in Seq(Command)
  BY <1>2 DEF TypeOK, TimerTypeOK, ChannelOf
<1>4. FinalPeriod(t, commands'[t].queue) = After(period[t], ch.queue)
  BY <1>3, FinalPeriodIsAfter
<1>5. After(period[t], ch.queue) \in Nat
  BY <1>3, QueueTypes, FinalPeriodType, PeriodsAssumption DEF TypeOK
<1> QED
  BY <1>1, <1>4, <1>5

\* A timer has a type, whatever happens to it.
THEOREM TimerTypes == Spec => []TypeOK
<1>1. Init => TypeOK
  <2>1. 0 \in Periods /\ Dropped \in ChannelOf(Command)
    BY EmptyChannels, PeriodsAssumption
  <2> QED
    BY <2>1 DEF Init, TimerInit, TypeOK, TimerTypeOK, StreamState, TaskState
<1>2. ASSUME TypeOK, ChainInv', [Next]_vars
      PROVE  TypeOK'
  <2>1. TimerTypeOK'
    BY <1>2 DEF ChainInv
  <2>2. prompt' = prompt
    BY <1>2 DEF vars, Next, Run, Tick
  <2>3. CASE UNCHANGED vars \/ \E t \in Timers : Run(t)
    BY <1>2, <2>1, <2>2, <2>3 DEF vars, Run, history, TypeOK
  <2>4. CASE Tick
    BY <1>2, <2>1, <2>2, <2>4 DEF Tick, TypeOK
  <2>5. ASSUME NEW t \in Timers, OwnerStep(t)
        PROVE  TypeOK'
    <3>1. promise' \in [Timers -> Nat]
      <4>1. ASSUME NEW cmd \in Command, Order(t, cmd)
            PROVE  promise' \in [Timers -> Nat]
        BY <1>2, <4>1, OrderPromise DEF TypeOK
      <4>2. UNCHANGED promise \/ \E cmd \in Command : Order(t, cmd)
        BY <2>5 DEF OwnerStep, Create, FirstPoll, Poll, Abandon, history
      <4> QED
        BY <1>2, <4>1, <4>2 DEF TypeOK
    <3>2. idle' \in [Timers -> Nat]
      <4>1. UNCHANGED idle \/ idle' = [idle EXCEPT ![t] = 0]
        BY <2>5 DEF OwnerStep, Create, FirstPoll, Poll, Abandon, Order, history
      <4> QED
        BY <1>2, <4>1 DEF TypeOK
    <3> QED
      BY <1>2, <2>1, <2>2, <3>1, <3>2 DEF TypeOK
  <2> QED
    BY <1>2, <2>3, <2>4, <2>5 DEF Next
<1> QED
  BY <1>1, <1>2, Chain, PTL DEF Spec

\* What is said of a timer is about that timer alone.
LEMMA QuietFrame ==
    ASSUME NEW t \in Timers, Quiet(t),
           stream'[t] = stream[t], task'[t] = task[t], fired'[t] = fired[t],
           period'[t] = period[t], left'[t] = left[t], commands'[t] = commands[t],
           resetter'[t] = resetter[t], promise'[t] = promise[t]
    PROVE  Quiet(t)'
BY DEF Quiet, Live, Ahead

\* The owners of one timer leave the others alone.
LEMMA OwnerFrame ==
    ASSUME TypeOK, NEW t \in Timers, OwnerStep(t), NEW x \in Timers, x # t
    PROVE  /\ stream'[x] = stream[x] /\ task'[x] = task[x] /\ fired'[x] = fired[x]
           /\ period'[x] = period[x] /\ left'[x] = left[x] /\ commands'[x] = commands[x]
           /\ resetter'[x] = resetter[x] /\ promise'[x] = promise[x]
<1> USE DEF TypeOK
<1>1. CASE Create(t)
  <2>1. PICK p \in Periods : CreateTimers([y \in {t} |-> p])
    BY <1>1 DEF Create
  <2> QED
    BY <1>1, <2>1 DEF Create, CreateTimers, TimerTypeOK, history
<1>2. CASE Initialise(t) /\ UNCHANGED history
  BY <1>2 DEF Initialise, TimerTypeOK, history
<1>3. CASE FirstPoll(t)
  BY <1>3 DEF FirstPoll, FirstPollPending, FirstPollReady, TimerTypeOK
<1>4. CASE Poll(t)
  BY <1>4 DEF Poll, PollExistingTask, TimerTypeOK
<1>5. ASSUME NEW cmd \in Command, Order(t, cmd)
      PROVE  /\ UNCHANGED <<stream, task, fired, period, left, resetter>>
             /\ commands'[x] = commands[x] /\ promise'[x] = promise[x]
  <2>1. SendCommand(t, cmd)
    BY <1>5 DEF Order
  <2> QED
    BY <1>5, <2>1, OrderEffect, OrderPromise DEF TimerTypeOK
<1>6. CASE Abandon(t)
  BY <1>6, AbandonEffect DEF Abandon
<1>7. CASE Drop(t) /\ UNCHANGED history
  BY <1>7, DropEffect DEF TimerTypeOK, history
<1> QED
  BY <1>1, <1>2, <1>3, <1>4, <1>5, <1>6, <1>7 DEF OwnerStep

\* The owners' steps.  A command that comes in time promises the period it
\* leads to, and one that comes late finds nothing promised.
LEMMA OwnerQuiet ==
    ASSUME ChainInv, TypeOK, QuietInv, NEW t \in Timers, OwnerStep(t)
    PROVE  Quiet(t)'
<1> USE DEF QuietInv, TypeOK
<1>1. CASE Create(t)
  <2>1. PICK p \in Periods : CreateTimers([x \in {t} |-> p])
    BY <1>1 DEF Create
  <2>2. /\ stream[t] = "absent" /\ stream'[t] = "unpolled"
        /\ period'[t] = p /\ commands'[t] = NewChannel
        /\ UNCHANGED <<task, fired, left, promise>>
    BY <1>1, <2>1 DEF Create, CreateTimers, TimerTypeOK, history
  <2>3. task[t] = "none" /\ promise[t] = 0 /\ fired[t] \in Nat
    BY <2>2 DEF Quiet, ChainInv, HandedOver, TimerTypeOK
  <2>4. After(p, NewChannel.queue) \in Nat
    <3>1. NewChannel.queue \in Seq(Command)
      BY DEF NewChannel
    <3> QED
      BY <3>1, FinalPeriodType, PeriodsAssumption
  <2> QED
    BY <2>2, <2>3, <2>4 DEF Quiet, Live, Ahead
<1>2. CASE Initialise(t) /\ UNCHANGED history
  <2>1. /\ stream[t] = "unpolled" /\ stream'[t] = "initialising" /\ task'[t] = "spawned"
        /\ UNCHANGED <<fired, period, left, commands, resetter, promise>>
    BY <1>2 DEF Initialise, history, TimerTypeOK
  <2>2. task[t] = "none"
    BY <2>1 DEF ChainInv, HandedOver
  <2> QED
    BY <2>1, <2>2 DEF Quiet, Live, Ahead
<1>3. CASE FirstPoll(t)
  <2>1. /\ stream[t] = "initialising"
        /\ \/ stream'[t] = "held" /\ UNCHANGED fired
           \/ stream'[t] = "ended" /\ fired'[t] = 0
        /\ UNCHANGED <<task, period, left, commands, resetter, promise>>
    BY <1>3 DEF FirstPoll, FirstPollPending, FirstPollReady, TimerTypeOK
  <2> QED
    BY <2>1 DEF Quiet, Live, Ahead
<1>4. CASE Poll(t)
  <2>1. /\ stream[t] = "held" /\ fired[t] > 0 /\ fired[t] \in Nat /\ fired'[t] = fired[t] - 1
        /\ UNCHANGED <<stream, task, period, left, commands, resetter, promise>>
    BY <1>4 DEF Poll, PollExistingTask, Emits, TimerTypeOK
  <2> QED
    BY <2>1 DEF Quiet, Live, Ahead
<1>5. ASSUME NEW cmd \in Command, Order(t, cmd)
      PROVE  Quiet(t)'
  <2> DEFINE new == After(period[t], Push(commands[t], cmd).queue)
  <2>1. SendCommand(t, cmd)
    BY <1>5 DEF Order
  <2>2. /\ resetter[t]
        /\ commands'[t] = Push(commands[t], cmd)
        /\ UNCHANGED <<stream, task, fired, period, left, resetter>>
    BY <2>1, OrderEffect DEF TimerTypeOK
  <2>3. /\ new \in Nat
        /\ promise'[t] = IF InTime(t) THEN new ELSE promise[t]
    BY <1>5, OrderPromise
  <2>4. /\ fired[t] \in Nat /\ left[t] \in Nat /\ period[t] \in Nat /\ promise[t] \in Nat
        /\ task[t] \in TaskState
    BY QueueTypes DEF TimerTypeOK
  <2>5. stream[t] # "absent" /\ (~Live(t) => fired[t] = 0)
    BY <2>2, <2>4 DEF Quiet
  <2>6. CASE ~Live(t)
    BY <2>2, <2>5, <2>6 DEF Quiet, Live
  <2>7. CASE Live(t)
    <3>1. Ready(commands'[t]) /\ task[t] \notin {"alone", "stalled"}
      <4>1. commands[t].open
        BY <2>2, <2>7 DEF ChainInv, HandedOver, Live
      <4>2. Push(commands[t], cmd).queue # <<>>
        <5>1. commands[t].queue \in Seq(Command)
          BY QueueTypes
        <5>2. Push(commands[t], cmd).queue = Append(commands[t].queue, cmd)
          BY <4>1, QueueTypes DEF Push, ChannelOf
        <5> QED
          BY <5>1, <5>2
      <4>3. task[t] \notin {"alone", "stalled"}
        BY <2>2 DEF PaceInv, PaceOf, Asleep
      <4> QED
        BY <2>2, <4>2, <4>3 DEF Ready
    <3>2. CASE InTime(t)
      BY <2>2, <2>3, <2>4, <2>5, <2>7, <3>1, <3>2 DEF InTime, Quiet, Live, Ahead
    <3>3. CASE ~InTime(t)
      <4>1. promise[t] = 0
        BY <2>4, <2>7, <3>3 DEF InTime, Quiet
      <4> QED
        BY <2>2, <2>3, <2>4, <2>5, <2>7, <3>1, <3>3, <4>1 DEF Quiet, Live, Ahead
    <3> QED
      BY <3>2, <3>3
  <2> QED
    BY <2>6, <2>7
<1>6. CASE Abandon(t)
  <2>1. /\ ~resetter'[t] /\ UNCHANGED <<stream, task, fired, period, left, commands, promise>>
    BY <1>6, AbandonEffect DEF Abandon
  <2> QED
    BY <2>1 DEF Quiet, Live, Ahead
<1>7. CASE Drop(t) /\ UNCHANGED history
  <2>1. stream'[t] = "dropped" /\ fired'[t] = 0
    BY <1>7, DropEffect DEF TimerTypeOK
  <2> QED
    BY <2>1 DEF Quiet, Live
<1> QED
  BY <1>1, <1>2, <1>3, <1>4, <1>5, <1>6, <1>7 DEF OwnerStep

\* The tasks' steps.  The command they take has promised what they begin to
\* sleep then, and a sleep that has run out had nothing promised.
LEMMA TaskQuiet ==
    ASSUME ChainInv, TypeOK, QuietInv, NEW t \in Timers, Run(t)
    PROVE  Quiet(t)'
<1> USE DEF QuietInv, TypeOK
<1>1. TaskStep(t) /\ UNCHANGED promise /\ UNCHANGED <<stream, resetter>>
  BY DEF Run, history, TaskStep, Start, HandleCommand, ResetterGone, Expire, ExpireAlone, Cancel
<1>2. /\ fired[t] \in Nat /\ left[t] \in Nat /\ period[t] \in Nat /\ promise[t] \in Nat
      /\ commands[t] \in ChannelOf(Command) /\ commands[t].queue \in Seq(Command)
      /\ ~Live(t) => fired[t] = 0
  BY QueueTypes DEF TimerTypeOK, Quiet
<1>3. CASE Start(t)
  <2>1. /\ task[t] = "spawned" /\ task'[t] = "running" /\ left'[t] = period[t]
        /\ UNCHANGED <<fired, period, commands>>
    BY <1>3 DEF Start, TimerTypeOK
  <2>2. ~Ready(commands[t]) => After(period[t], commands[t].queue) = period[t]
    BY <1>2, NoChange DEF Ready, Changes
  <2> QED
    BY <1>1, <1>2, <2>1, <2>2 DEF Quiet, Live, Ahead
<1>4. CASE HandleCommand(t)
  <2> DEFINE ch == commands[t]
             p == NewPeriod(First(ch), period[t])
  <2>1. /\ task[t] = "running" /\ Ready(ch)
        /\ commands'[t] = Pop(ch) /\ period'[t] = p /\ left'[t] = p
        /\ UNCHANGED <<task, fired>>
    BY <1>4 DEF HandleCommand, TimerTypeOK
  <2>2. p \in Nat /\ Pop(ch) \in ChannelOf(Command)
    BY <1>2, <2>1, QueueTypes, PopProperties, CommandTypes, PeriodsAssumption
  <2>3. After(p, Pop(ch).queue) = After(period[t], ch.queue)
    <3>1. First(ch) = Head(ch.queue) /\ Pop(ch).queue = Tail(ch.queue) /\ ch.queue # <<>>
      BY <1>2, <2>1 DEF First, Pop, Ready, ChannelOf
    <3> QED
      BY <1>2, <3>1, FinalPeriodAfterCommand
  <2>4. ~Ready(Pop(ch)) => After(p, Pop(ch).queue) = p
    BY <2>2, NoChange DEF Ready, Changes
  <2>5. Live(t) => promise[t] <= After(p, Pop(ch).queue)
    BY <2>1, <2>3 DEF Quiet, Ahead
  <2>6. p = 0 \/ p > 0
    BY <2>2
  <2> HIDE DEF p
  <2> QED
    BY <1>1, <1>2, <2>1, <2>2, <2>4, <2>5, <2>6 DEF Quiet, Live, Ahead
<1>5. CASE ResetterGone(t)
  <2>1. /\ task[t] = "running" /\ ~Ready(commands[t])
        /\ task'[t] = IF period[t] = 0 THEN "stalled" ELSE "alone"
        /\ left'[t] = period[t]
        /\ UNCHANGED <<fired, period, commands>>
    BY <1>5 DEF ResetterGone, TimerTypeOK
  <2>2. left[t] <= period[t]
    BY <2>1 DEF PaceInv, PaceOf, Asleep
  <2> QED
    BY <1>1, <1>2, <2>1, <2>2 DEF Quiet, Live, Ahead
<1>6. CASE Expire(t)
  <2>1. /\ task[t] = "running" /\ task'[t] = "spawned" /\ period[t] > 0 /\ left[t] = 0
        /\ fired'[t] = IF stream[t] \in {"initialising", "held"} THEN fired[t] + 1 ELSE fired[t]
        /\ UNCHANGED <<period, left, commands>>
    BY <1>6 DEF Expire, Fired, TimerTypeOK
  <2>2. Live(t) => promise[t] = 0 /\ 0 <= After(period[t], commands[t].queue)
    BY <2>1, QueueTypes DEF Quiet
  <2> QED
    BY <1>1, <1>2, <2>1, <2>2 DEF Quiet, Live, Ahead
<1>7. CASE ExpireAlone(t)
  <2>1. /\ task[t] = "alone" /\ left[t] = 0 /\ left'[t] = period[t] /\ commands'[t] = Dropped
        /\ fired'[t] = IF stream[t] \in {"initialising", "held"} THEN fired[t] + 1 ELSE fired[t]
        /\ UNCHANGED <<task, period>>
    BY <1>7 DEF ExpireAlone, Fired, TimerTypeOK
  <2>2. ~Ready(Dropped) /\ ~Ready(commands[t])
    BY <2>1 DEF Ready, Dropped, PaceInv, PaceOf, Asleep
  <2>3. Live(t) => promise[t] = 0
    BY <1>2, <2>1, <2>2 DEF Quiet
  <2> QED
    BY <1>1, <1>2, <2>1, <2>2, <2>3 DEF Quiet, Live, Ahead
<1>8. CASE Cancel(t)
  <2>1. stream[t] = "dropped" /\ UNCHANGED fired
    BY <1>8 DEF Cancel, ChainInv, HandedOver
  <2> QED
    BY <1>1, <2>1 DEF Quiet, Live
<1> QED
  BY <1>1, <1>3, <1>4, <1>5, <1>6, <1>7, <1>8 DEF TaskStep

\* The other timers do not notice.
LEMMA TaskFrame ==
    ASSUME TypeOK, NEW t \in Timers, Run(t), NEW x \in Timers, x # t
    PROVE  /\ stream'[x] = stream[x] /\ task'[x] = task[x] /\ fired'[x] = fired[x]
           /\ period'[x] = period[x] /\ left'[x] = left[x] /\ commands'[x] = commands[x]
           /\ resetter'[x] = resetter[x] /\ promise'[x] = promise[x]
BY DEF TypeOK, Run, history, TaskStep, Start, HandleCommand, ResetterGone, Expire, ExpireAlone,
       Cancel, Fired, TimerTypeOK

\* A tick is one less to sleep, and one less of silence promised.
LEMMA TickQuiet ==
    ASSUME ChainInv, TypeOK, QuietInv, prompt, Tick, NEW t \in Timers
    PROVE  Quiet(t)'
<1> USE DEF QuietInv, TypeOK
<1>1. /\ fired[t] \in Nat /\ left[t] \in Nat /\ period[t] \in Nat /\ promise[t] \in Nat
  BY QueueTypes DEF TimerTypeOK
<1>2. /\ UNCHANGED <<stream, task, fired, period, commands, resetter>>
      /\ left'[t] = IF task[t] \in {"running", "alone"} /\ left[t] > 0
                    THEN left[t] - 1 ELSE left[t]
      /\ promise'[t] = IF promise[t] > 0 THEN promise[t] - 1 ELSE 0
  BY DEF Tick, Elapse
<1>3. ~TaskReady(t)
  BY DEF Tick, Busy
<1>4. /\ promise'[t] <= promise[t] /\ promise'[t] \in Nat
      /\ promise[t] = 0 => promise'[t] = 0
  BY <1>1, <1>2
<1>5. After(period[t], commands[t].queue) \in Nat
  BY QueueTypes
<1>6. Live(t) /\ Ahead(t) => promise'[t] <= After(period[t], commands[t].queue)
  BY <1>1, <1>4, <1>5 DEF Quiet
<1>7. ASSUME Live(t), task[t] = "running"
      PROVE  /\ ~Ready(commands[t])
             /\ period[t] > 0 => left[t] > 0
             /\ promise[t] <= left[t] /\ promise'[t] <= left'[t]
  <2>1. ~Ready(commands[t]) /\ (period[t] > 0 => left[t] > 0)
    BY <1>1, <1>3, <1>7 DEF TaskReady
  <2> QED
    BY <1>1, <1>2, <1>7, <2>1 DEF Quiet
<1>8. ASSUME Live(t), task[t] = "alone", ~Ready(commands[t])
      PROVE  promise'[t] <= left'[t]
  BY <1>1, <1>2, <1>8 DEF Quiet
<1>9. ASSUME Live(t), task[t] = "running", period[t] > 0, left'[t] = 0
      PROVE  promise'[t] = 0
  BY <1>4, <1>7, <1>9
<1> QED
  BY <1>2, <1>4, <1>6, <1>7, <1>8, <1>9 DEF Quiet, Live, Ahead

\* On a prompt machine, a reset or a change of period that comes while the
\* timer still counts down keeps it silent for a whole new period, for any
\* periods and with any number of other commands before it and after it, though
\* the countdown is in another task and the command in a channel.
THEOREM Silent == Spec => []SilentAfterCommand
<1>1. Init => Silence
  <2>1. Init => Pace
    BY DEF Init, TimerInit, Pace, PaceInv, PaceOf, Asleep
  <2>2. Init => \A t \in Timers : Quiet(t)
    BY DEF Init, TimerInit, Quiet, Live
  <2> QED
    BY <2>1, <2>2 DEF Pace, Silence, QuietInv
<1>2. ASSUME ChainInv, TypeOK, Pace', Silence, [Next]_vars
      PROVE  Silence'
  <2>1. SUFFICES ASSUME prompt', NEW t \in Timers
                 PROVE  Quiet(t)'
    BY <1>2 DEF Pace, Silence, QuietInv
  <2>2. prompt' = prompt
    BY <1>2 DEF vars, Next, Run, Tick
  <2>3. QuietInv /\ Quiet(t)
    BY <1>2, <2>1, <2>2 DEF Silence, QuietInv
  <2>4. CASE UNCHANGED vars
    BY <2>3, <2>4, QuietFrame DEF vars, timerVars, history
  <2>5. CASE Tick
    BY <1>2, <2>1, <2>2, <2>3, <2>5, TickQuiet
  <2>6. ASSUME NEW x \in Timers, OwnerStep(x)
        PROVE  Quiet(t)'
    BY <1>2, <2>3, <2>6, OwnerQuiet, OwnerFrame, QuietFrame
  <2>7. ASSUME NEW x \in Timers, Run(x)
        PROVE  Quiet(t)'
    BY <1>2, <2>3, <2>7, TaskQuiet, TaskFrame, QuietFrame
  <2> QED
    BY <1>2, <2>4, <2>5, <2>6, <2>7 DEF Next
<1>3. Silence /\ TypeOK => SilentAfterCommand
  BY DEF Silence, QuietInv, Quiet, SilentAfterCommand, TypeOK, TimerTypeOK
<1> QED
  BY <1>1, <1>2, <1>3, Chain, Paced, TimerTypes, PTL DEF Spec
=============================================================================
