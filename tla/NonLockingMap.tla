--------------------------- MODULE NonLockingMap ---------------------------
(***************************************************************************)
(* src/asynchronous/nonlockingmap.rs, a predecessor of the crate async-map *)
(* that the tree still has and mod.rs does not declare.  Readers follow a  *)
(* raw pointer to the current HashMap, without lock; get() asks a task to  *)
(* make what is not there.  The task writes a new map, swaps the pointer   *)
(* and drops the old map.                                                  *)
(***************************************************************************)
EXTENDS Integers, Channel

CONSTANTS Callers,   \* the callers of get and get_if_present, one call each
          Keys,      \* the keys
          Parallel,  \* whether tasks run in parallel, or on one thread
          Hasty      \* the callers that poll without having been woken, as one
                     \* branch of a select! does

ASSUME ParallelAssumption == Parallel \in BOOLEAN
ASSUME HastyAssumption == Hasty \subseteq Callers

VARIABLES
    maps,      \* the maps ever made, each a function on its keys
    freed,     \* the positions of those that were dropped
    map_ptr,   \* the position of the one that readers are led to
    updater,   \* the task: "idle", or "swapped" with the old map still there
    updates,   \* its channel of MapActions
    caller,    \* caller[x]: "idle", "polled", "reading", "pending", "done" or
               \* "panicked"
    call       \* call[x]: whether it is a get, its key, whether it still has
               \* the factory, the map it reads, its result

vars == <<maps, freed, map_ptr, updater, updates, caller, call>>

None == 0         \* no value; the values are numbered as they are made
Garbage == -1     \* whatever is found in a map that was dropped

GetOrCreate(x) == [caller |-> x, key |-> call[x].key]

Init ==
    /\ maps = << [k \in {} |-> None] >>
    /\ freed = {}
    /\ map_ptr = 1
    /\ updater = "idle"
    /\ updates = NewChannel
    /\ caller = [x \in Callers |-> "idle"]
    /\ call = [x \in Callers |-> [get |-> FALSE, key |-> None, factory |-> FALSE,
                               map |-> 0, result |-> None]]

\* On one thread a task runs until it waits.
Uninterrupted(x) == /\ \A y \in Callers \ {x} : caller[y] # "reading"
                    /\ updater = "idle"
MayRun(x) == Parallel \/ Uninterrupted(x)

-----------------------------------------------------------------------------
(* Callers.                                                                *)

\* get() with a factory, get_if_present() without.
Call(x, k, get) ==
    /\ caller[x] = "idle" /\ MayRun(x)
    /\ caller' = [caller EXCEPT ![x] = "polled"]
    /\ call' = [call EXCEPT ![x] = [@ EXCEPT !.get = get, !.key = k, !.factory = get]]
    /\ UNCHANGED <<maps, freed, map_ptr, updater, updates>>

\* get_sync loads the pointer, ...
LoadPointer(x) ==
    /\ caller[x] = "polled" /\ MayRun(x)
    /\ caller' = [caller EXCEPT ![x] = "reading"]
    /\ call' = [call EXCEPT ![x].map = map_ptr]
    /\ UNCHANGED <<maps, freed, map_ptr, updater, updates>>

Returns(x, value) == /\ caller' = [caller EXCEPT ![x] = "done"]
                     /\ call' = [call EXCEPT ![x].result = value]
                     /\ UNCHANGED updates

\* poll(), for a key that is not there: it hands the factory to the task.  The
\* next poll has none, and would panic.
Asks(x) == /\ call[x].factory
           /\ updates' = Push(updates, GetOrCreate(x))
           /\ caller' = [caller EXCEPT ![x] = "pending"]
           /\ call' = [call EXCEPT ![x].factory = FALSE]
Panics(x) == /\ ~call[x].factory
             /\ caller' = [caller EXCEPT ![x] = "panicked"]
             /\ UNCHANGED <<updates, call>>

\* ... and follows it.
Look(x) ==
    LET k == call[x].key
        map == maps[call[x].map]
    IN  /\ caller[x] = "reading"
        /\ IF call[x].map \in freed THEN Returns(x, Garbage)
           ELSE IF k \in DOMAIN map THEN Returns(x, map[k])
           ELSE IF call[x].get THEN Asks(x) \/ Panics(x)
           ELSE Returns(x, None)
        /\ UNCHANGED <<maps, freed, map_ptr, updater>>

PollAgain(x) ==
    /\ caller[x] = "pending" /\ x \in Hasty /\ MayRun(x)
    /\ caller' = [caller EXCEPT ![x] = "polled"]
    /\ UNCHANGED <<maps, freed, map_ptr, updater, updates, call>>

-----------------------------------------------------------------------------
(* The task.                                                               *)

\* To wake a caller that is being polled, or has been answered, is no use.
Wake(x) == caller' = [caller EXCEPT ![x] = IF @ = "pending" THEN "polled" ELSE @]

\* Mutant: the factory's value goes into the map without looking.
CreateAlways ==
    /\ updater = "idle" /\ Ready(updates)
    /\ Parallel \/ \A x \in Callers : caller[x] # "reading"
    /\ LET k == First(updates).key
       IN  maps' = Append(maps, [j \in DOMAIN maps[map_ptr] \cup {k} |->
                    IF j = k THEN Len(maps) ELSE maps[map_ptr][j]])
    /\ map_ptr' = Len(maps')
    /\ updater' = "swapped"
    /\ UNCHANGED <<freed, updates, caller, call>>

\* create_if_necessary, when the key is not there: a map with it, and the swap.
Create ==
    /\ updater = "idle" /\ Ready(updates)
    /\ Parallel \/ \A x \in Callers : caller[x] # "reading"
    /\ First(updates).key \notin DOMAIN maps[map_ptr]
    /\ LET k == First(updates).key
       IN  maps' = Append(maps, [j \in DOMAIN maps[map_ptr] \cup {k} |->
                    IF j = k THEN Len(maps) ELSE maps[map_ptr][j]])
    /\ map_ptr' = Len(maps')
    /\ updater' = "swapped"
    /\ UNCHANGED <<freed, updates, caller, call>>

\* Mutant: no waker is called.
ReplaceWithoutWake ==
    /\ updater = "swapped"
    /\ freed' = freed \cup {map_ptr - 1}
    /\ updates' = Pop(updates)
    /\ updater' = "idle"
    /\ UNCHANGED <<maps, map_ptr, caller, call>>

\* The task keeps the new map, which drops the old one, and wakes the caller.
Replace ==
    /\ updater = "swapped"
    /\ freed' = freed \cup {map_ptr - 1}
    /\ updates' = Pop(updates)
    /\ Wake(First(updates).caller)
    /\ updater' = "idle"
    /\ UNCHANGED <<maps, map_ptr, call>>

\* When it is there: nothing to do, probably multiple creates were queued up.
Skip ==
    /\ updater = "idle" /\ Ready(updates)
    /\ Parallel \/ \A x \in Callers : caller[x] # "reading"
    /\ First(updates).key \in DOMAIN maps[map_ptr]
    /\ updates' = Pop(updates)
    /\ Wake(First(updates).caller)
    /\ UNCHANGED <<maps, freed, map_ptr, updater, call>>

Update == Create \/ Replace \/ Skip

Next ==
    \/ \E x \in Callers, k \in Keys, get \in BOOLEAN : Call(x, k, get)
    \/ \E x \in Callers : LoadPointer(x) \/ Look(x) \/ PollAgain(x)
    \/ Update

Spec == /\ Init /\ [][Next]_vars
        /\ WF_vars(Update)
        /\ \A x \in Callers : WF_vars(LoadPointer(x) \/ Look(x))

-----------------------------------------------------------------------------
(* What the map promises.                                                  *)

\* A key has one value for all its callers, though several of them may find it
\* missing and queue a creation each (nonlockingmap.rs:125-129), and only
\* get_if_present returns None.
OneValuePerKey ==
    \A x, y \in Callers :
        /\ caller[x] = "done" /\ call[x].get => call[x].result # None
        /\ /\ caller[x] = "done" /\ caller[y] = "done" /\ call[x].key = call[y].key
           /\ call[x].result # None /\ call[y].result # None
           => call[x].result = call[y].result

\* Every get resolves, however many others are queued up: the waker it left is
\* called after the pointer is swapped (nonlockingmap.rs:105-110), and when it
\* is polled then it has no need of the factory it gave away.  It takes a
\* caller that waits for the waker.
GetResolves == \A x \in Callers \ Hasty : (caller[x] = "pending") ~> (caller[x] = "done")
=============================================================================
