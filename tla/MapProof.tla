------------------------------ MODULE MapProof ------------------------------
(***************************************************************************)
(* What NonLockingMap promises, for any number of callers and keys, hasty  *)
(* callers among them: a map never loses or changes a value that an older  *)
(* one had, so that it does not matter which map a caller read, as long as *)
(* it was not dropped; on one thread it cannot have been.                  *)
(***************************************************************************)
EXTENDS NonLockingMap, ChannelTheorems

Values == Nat \ {None}
Maps == UNION {[ks -> Values] : ks \in SUBSET Keys}
Request == [caller : Callers, key : Keys]
CallState == {"idle", "polled", "reading", "pending", "done", "panicked"}

Types ==
    /\ maps \in Seq(Maps)
    /\ freed \subseteq Int
    /\ updater \in {"idle", "swapped"}
    /\ updates \in ChannelOf(Request)
    /\ updater = "swapped" => Ready(updates)
    /\ caller \in [Callers -> CallState]
    /\ call \in [Callers -> [get : BOOLEAN, key : Keys \cup {None}, factory : BOOLEAN,
                             map : Nat, result : Int]]
    /\ \A x \in Callers : caller[x] # "idle" => call[x].key \in Keys

\* Readers are led to the newest map, which has not been dropped; an older one
\* has no value that the newer ones have not.
Growing ==
    /\ map_ptr = Len(maps)
    /\ map_ptr > 0
    /\ \A n \in freed : n < map_ptr
    /\ \A m, n \in DOMAIN maps : m <= n =>
         \A k \in DOMAIN maps[m] : k \in DOMAIN maps[n] /\ maps[n][k] = maps[m][k]

\* What a call returned was in the map it read.
Answered(x) ==
    LET map == maps[call[x].map]
    IN  /\ caller[x] \in {"reading", "done"} => call[x].map \in DOMAIN maps
        /\ caller[x] = "done" =>
             \/ call[x].key \in DOMAIN map /\ call[x].result = map[call[x].key]
             \/ ~call[x].get /\ call[x].result = None
             \/ Parallel /\ call[x].result = Garbage

\* On one thread nobody reads while the task is at work, ...
Alone ==
    ~Parallel => \A x \in Callers : caller[x] = "reading" =>
        /\ updater = "idle"
        /\ call[x].map = map_ptr

\* What a caller returns it has not found in a map that was dropped.
ReturnsValueOrNone ==
    \A x \in Callers : caller[x] = "done" => call[x].result # Garbage

MapInv == Types /\ Growing /\ Alone /\ \A x \in Callers : Answered(x)
-----------------------------------------------------------------------------
(* The steps.                                                              *)

\* What a call knows, for a reader of proofs about it.
LEMMA CallTypes ==
    ASSUME MapInv, NEW x \in Callers
    PROVE  /\ caller[x] \in CallState
           /\ call[x] \in [get : BOOLEAN, key : Keys \cup {None}, factory : BOOLEAN,
                           map : Nat, result : Int]
           /\ caller[x] # "idle" => call[x].key \in Keys
BY DEF MapInv, Types

\* Where readers are led to, there is a map.
LEMMA NewestMap ==
    ASSUME MapInv
    PROVE  /\ DOMAIN maps = 1 .. Len(maps) /\ Len(maps) \in Nat
           /\ map_ptr \in DOMAIN maps
           /\ \A m \in DOMAIN maps : maps[m] \in Maps
BY DEF MapInv, Types, Growing

\* The values in a map are values, and the keys are keys.
LEMMA MapEntries ==
    ASSUME NEW map \in Maps
    PROVE  /\ DOMAIN map \subseteq Keys
           /\ \A k \in DOMAIN map : map[k] \in Values
BY DEF Maps

\* A step of callers that leaves the maps and the task alone, keeps what is
\* said about them.
LEMMA CallersOnly ==
    ASSUME MapInv, UNCHANGED <<maps, freed, map_ptr, updater>>
    PROVE  Growing' /\ \A x \in Callers : caller'[x] = caller[x] /\ call'[x] = call[x] => Answered(x)'
BY DEF MapInv, Growing, Answered

\* The call of get() or get_if_present().
LEMMA CallStep ==
    ASSUME MapInv, NEW x \in Callers, NEW k \in Keys, NEW get \in BOOLEAN, Call(x, k, get)
    PROVE  MapInv'
<1>1. /\ caller[x] = "idle"
      /\ caller' = [caller EXCEPT ![x] = "polled"]
      /\ call' = [call EXCEPT ![x] = [@ EXCEPT !.get = get, !.key = k, !.factory = get]]
      /\ UNCHANGED <<maps, freed, map_ptr, updater, updates>>
  BY DEF Call
<1>2. Types'
  BY <1>1, CallTypes DEF MapInv, Types, CallState
<1>3. Alone'
  BY <1>1 DEF MapInv, Types, Alone
<1>4. ASSUME NEW y \in Callers
      PROVE  Answered(y)'
  BY <1>1, CallersOnly DEF MapInv, Types, Answered
<1> QED
  BY <1>1, <1>2, <1>3, <1>4, CallersOnly DEF MapInv

\* get_sync's load of the pointer.
LEMMA LoadPointerStep ==
    ASSUME MapInv, NEW x \in Callers, LoadPointer(x)
    PROVE  MapInv'
<1>1. /\ caller[x] = "polled" /\ MayRun(x)
      /\ caller' = [caller EXCEPT ![x] = "reading"]
      /\ call' = [call EXCEPT ![x].map = map_ptr]
      /\ UNCHANGED <<maps, freed, map_ptr, updater, updates>>
  BY DEF LoadPointer
<1>2. map_ptr \in DOMAIN maps /\ map_ptr \in Nat
  BY NewestMap
<1>3. Types'
  BY <1>1, <1>2, CallTypes DEF MapInv, Types, CallState
<1>4. Alone'
  BY <1>1 DEF MapInv, Types, Alone, MayRun, Uninterrupted
<1>5. ASSUME NEW y \in Callers
      PROVE  Answered(y)'
  BY <1>1, <1>2, CallersOnly DEF MapInv, Types, Answered
<1> QED
  BY <1>1, <1>3, <1>4, <1>5, CallersOnly DEF MapInv

\* A caller that follows the pointer returns what it finds, or asks for it.
LEMMA LookStep ==
    ASSUME MapInv, NEW x \in Callers, Look(x)
    PROVE  MapInv'
<1> DEFINE map == maps[call[x].map]
<1>1. /\ caller[x] = "reading"
      /\ UNCHANGED <<maps, freed, map_ptr, updater>>
  BY DEF Look
<1>2. /\ call[x].map \in DOMAIN maps /\ map \in Maps /\ call[x].key \in Keys
  BY <1>1, CallTypes, NewestMap DEF MapInv, Answered
<1>3. ~Parallel => call[x].map \notin freed
  BY <1>1, <1>2, NewestMap DEF MapInv, Alone, Growing
<1>4. ASSUME NEW v, Returns(x, v),
             \/ call[x].key \in DOMAIN map /\ v = map[call[x].key]
             \/ ~call[x].get /\ v = None
             \/ Parallel /\ v = Garbage
      PROVE  MapInv'
  <2>1. /\ caller' = [caller EXCEPT ![x] = "done"]
        /\ call' = [call EXCEPT ![x].result = v]
        /\ UNCHANGED updates
    BY <1>4 DEF Returns
  <2>2. v \in Int
    BY <1>2, <1>4, MapEntries DEF None, Garbage, Values
  <2>3. Types'
    BY <1>1, <2>1, <2>2, CallTypes DEF MapInv, Types, CallState
  <2>4. Alone'
    BY <1>1, <2>1 DEF MapInv, Types, Alone
  <2>5. Answered(x)'
    BY <1>1, <1>2, <1>4, <2>1, CallTypes DEF MapInv, Types, Answered
  <2>6. ASSUME NEW y \in Callers \ {x}
        PROVE  Answered(y)'
    BY <1>1, <2>1, CallersOnly DEF MapInv, Types
  <2> QED
    BY <1>1, <2>3, <2>4, <2>5, <2>6, CallersOnly DEF MapInv
<1>5. ASSUME Asks(x)
      PROVE  MapInv'
  <2>1. /\ updates' = Push(updates, GetOrCreate(x))
        /\ caller' = [caller EXCEPT ![x] = "pending"]
        /\ call' = [call EXCEPT ![x].factory = FALSE]
    BY <1>5 DEF Asks
  <2>2. /\ updates \in ChannelOf(Request) /\ GetOrCreate(x) \in Request
    BY <1>2 DEF MapInv, Types, GetOrCreate, Request
  <2>3. /\ updates' \in ChannelOf(Request)
        /\ Ready(updates) => Ready(updates')
    BY <2>1, <2>2, PushProperties
  <2>4. Types'
    BY <1>1, <2>1, <2>3, CallTypes DEF MapInv, Types, CallState
  <2>5. Alone'
    BY <1>1, <2>1 DEF MapInv, Types, Alone
  <2>6. ASSUME NEW y \in Callers
        PROVE  Answered(y)'
    BY <1>1, <2>1, CallersOnly DEF MapInv, Types, Answered
  <2> QED
    BY <1>1, <2>4, <2>5, <2>6, CallersOnly DEF MapInv
<1>6. ASSUME Panics(x)
      PROVE  MapInv'
  <2>1. /\ caller' = [caller EXCEPT ![x] = "panicked"]
        /\ UNCHANGED <<updates, call>>
    BY <1>6 DEF Panics
  <2>2. Types'
    BY <1>1, <2>1, CallTypes DEF MapInv, Types, CallState
  <2>3. Alone'
    BY <1>1, <2>1 DEF MapInv, Types, Alone
  <2>4. ASSUME NEW y \in Callers
        PROVE  Answered(y)'
    BY <1>1, <2>1, CallersOnly DEF MapInv, Types, Answered
  <2> QED
    BY <1>1, <2>2, <2>3, <2>4, CallersOnly DEF MapInv
<1>7. CASE call[x].map \in freed
  BY <1>3, <1>4, <1>7 DEF Look
<1>8. CASE call[x].map \notin freed /\ call[x].key \in DOMAIN map
  BY <1>4, <1>8 DEF Look
<1>9. CASE call[x].map \notin freed /\ call[x].key \notin DOMAIN map
  BY <1>4, <1>5, <1>6, <1>9 DEF Look
<1> QED
  BY <1>7, <1>8, <1>9

\* A caller polls again: because it chose to, or because it was woken.
LEMMA Repoll ==
    ASSUME MapInv, NEW x \in Callers,
           caller' = [caller EXCEPT ![x] = IF @ = "pending" THEN "polled" ELSE @],
           UNCHANGED <<maps, map_ptr, call>>
    PROVE  /\ caller' \in [Callers -> CallState]
           /\ \A y \in Callers : /\ caller'[y] = "idle" <=> caller[y] = "idle"
                                 /\ caller'[y] = "reading" <=> caller[y] = "reading"
           /\ \A y \in Callers : Answered(y)'
<1>1. /\ caller' \in [Callers -> CallState]
      /\ \A y \in Callers : /\ caller'[y] = "idle" <=> caller[y] = "idle"
                            /\ caller'[y] = "reading" <=> caller[y] = "reading"
                            /\ caller'[y] = "done" <=> caller[y] = "done"
  BY DEF MapInv, Types, CallState
<1>2. ASSUME NEW y \in Callers
      PROVE  Answered(y)'
  BY <1>1 DEF MapInv, Answered
<1> QED
  BY <1>1, <1>2

\* A poll without need.
LEMMA PollAgainStep ==
    ASSUME MapInv, NEW x \in Callers, PollAgain(x)
    PROVE  MapInv'
<1>1. /\ caller' = [caller EXCEPT ![x] = IF @ = "pending" THEN "polled" ELSE @]
      /\ UNCHANGED <<maps, freed, map_ptr, updater, updates, call>>
  BY DEF PollAgain, MapInv, Types
<1>2. Types'
  BY <1>1, Repoll DEF MapInv, Types
<1>3. Alone'
  BY <1>1, Repoll DEF MapInv, Alone
<1> QED
  BY <1>1, <1>2, <1>3, Repoll, CallersOnly DEF MapInv

\* create_if_necessary: the new map has all that the old one had, and one key
\* more.
LEMMA CreateStep ==
    ASSUME MapInv, Create
    PROVE  MapInv'
<1> DEFINE k == First(updates).key
           old == maps[map_ptr]
           new == [j \in DOMAIN old \cup {k} |-> IF j = k THEN Len(maps) ELSE old[j]]
<1>1. /\ updater = "idle" /\ Ready(updates) /\ k \notin DOMAIN old
      /\ ~Parallel => \A x \in Callers : caller[x] # "reading"
      /\ maps' = Append(maps, new)
      /\ map_ptr' = Len(maps')
      /\ updater' = "swapped"
      /\ UNCHANGED <<freed, updates, caller, call>>
  BY DEF Create
<1>2. /\ Len(maps) \in Nat /\ Len(maps) > 0 /\ map_ptr = Len(maps)
      /\ DOMAIN maps = 1 .. Len(maps) /\ maps \in Seq(Maps) /\ old \in Maps
  BY NewestMap DEF MapInv, Types, Growing
<1>3. new \in Maps
  <2>1. k \in Keys
    <3>1. updates \in ChannelOf(Request)
      BY DEF MapInv, Types
    <3>2. First(updates) \in Request
      BY <1>1, <3>1, PopProperties
    <3> QED
      BY <3>2 DEF Request
  <2>2. DOMAIN old \cup {k} \in SUBSET Keys
    BY <1>2, <2>1, MapEntries
  <2>3. \A j \in DOMAIN old \cup {k} : new[j] \in Values
    BY <1>2, MapEntries DEF Values, None
  <2>4. new \in [DOMAIN old \cup {k} -> Values]
    BY <2>3
  <2> QED
    BY <2>2, <2>4 DEF Maps
<1>4. /\ maps' \in Seq(Maps) /\ Len(maps') = Len(maps) + 1
      /\ DOMAIN maps' = 1 .. Len(maps) + 1
      /\ \A m \in 1 .. Len(maps) : maps'[m] = maps[m]
      /\ maps'[Len(maps) + 1] = new
  <2> HIDE DEF new
  <2> QED
    BY <1>1, <1>2, <1>3
<1>5. Types'
  BY <1>1, <1>4 DEF MapInv, Types
<1>6. Growing'
  <2>1. map_ptr' = Len(maps') /\ map_ptr' > 0 /\ \A n \in freed' : n < map_ptr'
    <3>1. \A n \in freed : n \in Int /\ n < map_ptr
      BY DEF MapInv, Types, Growing
    <3>2. map_ptr' = Len(maps) + 1
      BY <1>1, <1>4
    <3> QED
      BY <1>1, <1>2, <1>4, <3>1, <3>2
  <2>2. ASSUME NEW m \in DOMAIN maps', NEW n \in DOMAIN maps', m <= n, NEW j \in DOMAIN maps'[m]
        PROVE  j \in DOMAIN maps'[n] /\ maps'[n][j] = maps'[m][j]
    <3>1. CASE n \in DOMAIN maps
      BY <1>2, <1>4, <2>2, <3>1 DEF MapInv, Growing
    <3>2. CASE n = Len(maps) + 1 /\ m \in DOMAIN maps
      <4>1. m <= map_ptr /\ map_ptr \in DOMAIN maps /\ j \in DOMAIN maps[m] /\ maps'[m] = maps[m]
        BY <1>2, <1>4, <2>2, <3>2
      <4>2. j \in DOMAIN old /\ old[j] = maps[m][j]
        BY <3>2, <4>1 DEF MapInv, Growing
      <4>3. j \in DOMAIN new /\ new[j] = old[j]
        BY <1>1, <4>2
      <4> QED
        BY <1>4, <3>2, <4>1, <4>2, <4>3
    <3>3. CASE n = Len(maps) + 1 /\ m = n
      BY <2>2, <3>3
    <3> QED
      BY <1>2, <1>4, <2>2, <3>1, <3>2, <3>3
  <2> QED
    BY <2>1, <2>2 DEF Growing
<1>7. Alone'
  BY <1>1 DEF Alone
<1>8. ASSUME NEW x \in Callers
      PROVE  Answered(x)'
  <2>1. caller[x] \in {"reading", "done"} =>
          call[x].map \in DOMAIN maps /\ call[x].map \in DOMAIN maps'
                                      /\ maps'[call[x].map] = maps[call[x].map]
    BY <1>2, <1>4 DEF MapInv, Answered
  <2> QED
    BY <1>1, <2>1 DEF MapInv, Answered
<1> QED
  BY <1>5, <1>6, <1>7, <1>8 DEF MapInv

\* The answer to a request: it is taken from the channel, and the caller woken.
LEMMA AnswerEffect ==
    ASSUME MapInv, Ready(updates), updates' = Pop(updates), Wake(First(updates).caller),
           UNCHANGED <<maps, map_ptr, call>>
    PROVE  /\ updates' \in ChannelOf(Request)
           /\ caller' \in [Callers -> CallState]
           /\ \A y \in Callers : /\ caller'[y] = "idle" <=> caller[y] = "idle"
                                 /\ caller'[y] = "reading" <=> caller[y] = "reading"
           /\ \A y \in Callers : Answered(y)'
<1>1. updates' \in ChannelOf(Request) /\ First(updates) \in Request
  BY PopProperties DEF MapInv, Types
<1>2. First(updates).caller \in Callers
  BY <1>1 DEF Request
<1> QED
  BY <1>1, <1>2, Repoll DEF Wake

\* The old map is dropped, when the new one is in place.
LEMMA ReplaceStep ==
    ASSUME MapInv, Replace
    PROVE  MapInv'
<1>1. /\ updater = "swapped" /\ Ready(updates)
      /\ freed' = freed \cup {map_ptr - 1}
      /\ updates' = Pop(updates) /\ Wake(First(updates).caller)
      /\ updater' = "idle"
      /\ UNCHANGED <<maps, map_ptr, call>>
  BY DEF Replace, MapInv, Types
<1>2. map_ptr \in Int
  BY NewestMap
<1>3. Types'
  BY <1>1, <1>2, AnswerEffect DEF MapInv, Types
<1>4. Growing'
  BY <1>1, <1>2 DEF MapInv, Types, Growing
<1>5. Alone'
  BY <1>1, AnswerEffect DEF MapInv, Alone
<1> QED
  BY <1>1, <1>3, <1>4, <1>5, AnswerEffect DEF MapInv

\* A request for what is there by now.
LEMMA SkipStep ==
    ASSUME MapInv, Skip
    PROVE  MapInv'
<1>1. /\ updater = "idle" /\ Ready(updates)
      /\ updates' = Pop(updates) /\ Wake(First(updates).caller)
      /\ UNCHANGED <<maps, freed, map_ptr, updater, call>>
  BY DEF Skip
<1>2. Types'
  BY <1>1, AnswerEffect DEF MapInv, Types
<1>3. Growing'
  BY <1>1, CallersOnly
<1>4. Alone'
  BY <1>1, AnswerEffect DEF MapInv, Alone
<1> QED
  BY <1>1, <1>2, <1>3, <1>4, AnswerEffect DEF MapInv

\* At first there is one map, and it is empty.
LEMMA InitMapInv == Init => MapInv
<1> SUFFICES ASSUME Init PROVE MapInv
  OBVIOUS
<1> DEFINE empty == [k \in {} |-> None]
<1>1. empty \in Maps
  <2>1. empty \in [{} -> Values]
    OBVIOUS
  <2> QED
    BY <2>1 DEF Maps
<1>2. maps = <<empty>> /\ maps \in Seq(Maps) /\ Len(maps) = 1 /\ DOMAIN maps = {1}
  <2>1. maps = <<empty>>
    BY DEF Init
  <2> HIDE DEF empty
  <2> QED
    BY <1>1, <2>1
<1>3. Types
  BY <1>2, EmptyChannels DEF Init, Types, CallState, None
<1>4. Growing
  BY <1>2 DEF Init, Growing
<1> QED
  BY <1>3, <1>4 DEF Init, MapInv, Alone, Answered

\* MapInv is inductive, whether tasks run in parallel or not.
LEMMA MapStep ==
    ASSUME MapInv, [Next]_vars
    PROVE  MapInv'
<1>1. CASE UNCHANGED vars
  <2>1. /\ Types' = Types /\ Growing' = Growing /\ Alone' = Alone
        /\ \A x \in Callers : Answered(x)' = Answered(x)
    BY <1>1 DEF vars, Types, Growing, Alone, Answered
  <2> QED
    BY <2>1 DEF MapInv
<1>2. CASE Next
  BY <1>2, CallStep, LoadPointerStep, LookStep, PollAgainStep, CreateStep, ReplaceStep, SkipStep
     DEF Next, Update
<1> QED
  BY <1>1, <1>2

-----------------------------------------------------------------------------
(* The promises.                                                           *)

\* The map keeps its types and its order for ever.
LEMMA MapInvariance == Spec => []MapInv
BY InitMapInv, MapStep, PTL DEF Spec

\* Two callers that found values under a key found the same one, though they
\* may have read different maps.
LEMMA SameValue ==
    ASSUME MapInv, NEW x \in Callers, NEW y \in Callers,
           caller[x] = "done", caller[y] = "done", call[x].key = call[y].key,
           call[x].result \notin {None, Garbage}, call[y].result \notin {None, Garbage}
    PROVE  call[x].result = call[y].result
<1>1. /\ call[x].map \in DOMAIN maps /\ call[x].key \in DOMAIN maps[call[x].map]
      /\ call[x].result = maps[call[x].map][call[x].key]
  BY DEF MapInv, Answered
<1>2. /\ call[y].map \in DOMAIN maps /\ call[y].key \in DOMAIN maps[call[y].map]
      /\ call[y].result = maps[call[y].map][call[y].key]
  BY DEF MapInv, Answered
<1>3. call[x].map <= call[y].map \/ call[y].map <= call[x].map
  BY <1>1, <1>2, NewestMap
<1> QED
  BY <1>1, <1>2, <1>3 DEF MapInv, Growing

\* On one thread a key has one value for all its callers, however many
\* creations of it are queued up, and a get() always has one.
THEOREM OneValue ==
    ASSUME ~Parallel
    PROVE  Spec => []OneValuePerKey
<1>1. MapInv => ReturnsValueOrNone
  BY NewestMap, MapEntries DEF MapInv, Answered, ReturnsValueOrNone, Values, None, Garbage
<1>2. MapInv => OneValuePerKey
  <2> SUFFICES ASSUME MapInv, NEW x \in Callers, NEW y \in Callers
               PROVE  /\ caller[x] = "done" /\ call[x].get => call[x].result # None
                      /\ /\ caller[x] = "done" /\ caller[y] = "done"
                         /\ call[x].key = call[y].key
                         /\ call[x].result # None /\ call[y].result # None
                         => call[x].result = call[y].result
    BY DEF OneValuePerKey
  <2>1. caller[x] = "done" /\ call[x].get => call[x].result # None
    BY NewestMap, MapEntries DEF MapInv, Answered, Values
  <2>2. /\ caller[x] = "done" => call[x].result # Garbage
        /\ caller[y] = "done" => call[y].result # Garbage
    BY <1>1 DEF ReturnsValueOrNone
  <2> QED
    BY <2>1, <2>2, SameValue
<1> QED
  BY <1>2, MapInvariance, PTL

\* Whether tasks run in parallel or not, two callers of one key that have
\* values have the same value, as long as neither of them read a dropped map.
ValuesAgree ==
    \A x, y \in Callers :
        /\ caller[x] = "done" /\ caller[y] = "done" /\ call[x].key = call[y].key
        /\ {call[x].result, call[y].result} \cap {None, Garbage} = {}
        => call[x].result = call[y].result

\* The task does not undo a creation, nor does it repeat one, also where tasks
\* run in parallel and a dropped map may be read: what a reader then finds is
\* all that can go wrong.
THEOREM ValuesDoAgree == Spec => []ValuesAgree
<1>1. MapInv => ValuesAgree
  BY SameValue DEF ValuesAgree
<1> QED
  BY <1>1, MapInvariance, PTL
=============================================================================
