-------------------------- MODULE ChannelTheorems --------------------------
(***************************************************************************)
(* What the operations of Channel do to the values in a channel, so that   *)
(* proofs about the tasks that use one need not look into sequences.       *)
(***************************************************************************)
EXTENDS Channel, SequenceTheorems, WellFoundedInduction, TLAPS

\* A fresh channel and a dropped one are channels, and hold nothing.
LEMMA EmptyChannels ==
    ASSUME NEW M
    PROVE  /\ NewChannel \in ChannelOf(M) /\ Pending(NewChannel) = {} /\ NewChannel.open
           /\ Dropped \in ChannelOf(M) /\ Pending(Dropped) = {} /\ ~Dropped.open
BY DEF NewChannel, Dropped, ChannelOf, Pending

\* UnboundedSender::send adds its value, unless the receiver is gone; then the
\* channel stays as it is.
LEMMA PushProperties ==
    ASSUME NEW M, NEW ch \in ChannelOf(M), NEW m \in M
    PROVE  /\ Push(ch, m) \in ChannelOf(M)
           /\ Push(ch, m).open = ch.open
           /\ Pending(ch) \subseteq Pending(Push(ch, m))
           /\ Pending(Push(ch, m)) \subseteq Pending(ch) \cup {m}
           /\ ch.open => m \in Pending(Push(ch, m))
           /\ ~ch.open => Push(ch, m) = ch
           /\ Ready(ch) => Ready(Push(ch, m)) /\ First(Push(ch, m)) = First(ch)
<1>1. CASE ~ch.open
  BY <1>1 DEF Push, ChannelOf
<1>2. CASE ch.open
  <2> DEFINE q == Append(ch.queue, m)
  <2>1. /\ q \in Seq(M)
        /\ DOMAIN ch.queue = 1 .. Len(ch.queue)
        /\ DOMAIN q = 1 .. Len(ch.queue) + 1
        /\ \A k \in 1 .. Len(ch.queue) : q[k] = ch.queue[k]
        /\ q[Len(ch.queue) + 1] = m
        /\ Len(ch.queue) \in Nat
    BY DEF ChannelOf
  <2>2. Push(ch, m) = [ch EXCEPT !.queue = q]
    BY <1>2 DEF Push
  <2>3. /\ Push(ch, m).queue = q
        /\ Push(ch, m).open = ch.open
        /\ Push(ch, m) \in ChannelOf(M)
    BY <2>1, <2>2 DEF ChannelOf
  <2>4. Pending(ch) \subseteq Pending(Push(ch, m))
    BY <2>1, <2>3 DEF Pending
  <2>5. Pending(Push(ch, m)) \subseteq Pending(ch) \cup {m}
    BY <2>1, <2>3 DEF Pending
  <2>6. m \in Pending(Push(ch, m))
    BY <2>1, <2>3 DEF Pending
  <2>7. ASSUME Ready(ch)
        PROVE  Ready(Push(ch, m)) /\ First(Push(ch, m)) = First(ch)
    <3>1. Len(ch.queue) > 0
      BY <2>1, <2>7, EmptySeq DEF Ready, ChannelOf
    <3> QED
      BY <2>1, <2>3, <3>1 DEF Ready, First, ChannelOf
  <2> QED
    BY <1>2, <2>3, <2>4, <2>5, <2>6, <2>7
<1> QED
  BY <1>1, <1>2

\* UnboundedReceiver::recv takes the first value and leaves the others.
LEMMA PopProperties ==
    ASSUME NEW M, NEW ch \in ChannelOf(M), Ready(ch)
    PROVE  /\ Pop(ch) \in ChannelOf(M)
           /\ Pop(ch).open = ch.open
           /\ First(ch) \in M
           /\ First(ch) \in Pending(ch)
           /\ Pending(Pop(ch)) \subseteq Pending(ch)
           /\ Pending(ch) \subseteq Pending(Pop(ch)) \cup {First(ch)}
<1> DEFINE q == ch.queue
<1>1. /\ q \in Seq(M) /\ q # <<>> /\ Len(q) \in Nat /\ Len(q) > 0
  BY DEF ChannelOf, Ready
<1>2. /\ Tail(q) \in Seq(M)
      /\ Len(Tail(q)) = Len(q) - 1
      /\ \A k \in 1 .. Len(Tail(q)) : Tail(q)[k] = q[k + 1]
      /\ Head(q) = q[1] /\ Head(q) \in M
  BY <1>1
<1>3. /\ Pop(ch).queue = Tail(q) /\ Pop(ch).open = ch.open
      /\ Pop(ch) \in ChannelOf(M)
  BY <1>2 DEF Pop, ChannelOf
<1>4. DOMAIN q = 1 .. Len(q) /\ DOMAIN Tail(q) = 1 .. Len(q) - 1
  BY <1>1, <1>2
<1>5. Pending(Pop(ch)) \subseteq Pending(ch)
  BY <1>1, <1>2, <1>3, <1>4 DEF Pending
<1>6. Pending(ch) \subseteq Pending(Pop(ch)) \cup {First(ch)}
  <2> SUFFICES ASSUME NEW k \in 1 .. Len(q)
               PROVE  q[k] \in Pending(Pop(ch)) \cup {q[1]}
    BY <1>2, <1>4 DEF Pending, First
  <2>1. CASE k = 1
    BY <2>1
  <2>2. CASE k # 1
    <3>1. k - 1 \in 1 .. Len(Tail(q)) /\ Tail(q)[k - 1] = q[k]
      BY <1>1, <1>2, <2>2
    <3> QED
      BY <1>2, <1>3, <1>4, <3>1 DEF Pending
  <2> QED
    BY <2>1, <2>2
<1>7. First(ch) \in M /\ First(ch) \in Pending(ch)
  <2>1. First(ch) = q[1] /\ 1 \in DOMAIN q
    BY <1>1, <1>2, <1>4 DEF First
  <2> QED
    BY <1>2, <2>1 DEF Pending, First
<1> QED
  BY <1>3, <1>5, <1>6, <1>7

\* A channel with at most one value of a kind still has at most one after a
\* send, if there was none or the value sent is of
\* another kind.
LEMMA PushAtMostOne ==
    ASSUME NEW M, NEW ch \in ChannelOf(M), NEW m \in M, NEW Kind,
           AtMostOne(ch, Kind),
           m \notin Kind \/ Pending(ch) \cap Kind = {}
    PROVE  AtMostOne(Push(ch, m), Kind)
<1>1. CASE ~ch.open
  BY <1>1 DEF Push
<1>2. CASE ch.open
  <2>1. /\ Push(ch, m).queue = Append(ch.queue, m)
        /\ DOMAIN ch.queue = 1 .. Len(ch.queue)
        /\ DOMAIN Append(ch.queue, m) = 1 .. Len(ch.queue) + 1
        /\ \A k \in 1 .. Len(ch.queue) : Append(ch.queue, m)[k] = ch.queue[k]
        /\ Append(ch.queue, m)[Len(ch.queue) + 1] = m
        /\ Len(ch.queue) \in Nat
    BY <1>2 DEF Push, ChannelOf
  <2>2. CASE m \notin Kind
    BY <2>1, <2>2 DEF AtMostOne
  <2>3. CASE Pending(ch) \cap Kind = {}
    BY <2>1, <2>3 DEF AtMostOne, Pending
  <2> QED
    BY <2>2, <2>3
<1> QED
  BY <1>1, <1>2

\* It still does after a recv, and if the value taken was of the kind, no other
\* value is.
LEMMA PopAtMostOne ==
    ASSUME NEW M, NEW ch \in ChannelOf(M), Ready(ch), NEW Kind,
           AtMostOne(ch, Kind)
    PROVE  /\ AtMostOne(Pop(ch), Kind)
           /\ First(ch) \in Kind => Pending(Pop(ch)) \cap Kind = {}
<1> DEFINE q == ch.queue
<1>1. /\ q \in Seq(M) /\ q # <<>> /\ Len(q) \in Nat /\ Len(q) > 0
      /\ DOMAIN q = 1 .. Len(q)
  BY DEF ChannelOf, Ready
<1>2. /\ Tail(q) \in Seq(M)
      /\ DOMAIN Tail(q) = 1 .. Len(q) - 1
      /\ \A k \in 1 .. Len(q) - 1 : Tail(q)[k] = q[k + 1]
      /\ Head(q) = q[1]
  BY <1>1
<1>3. Pop(ch).queue = Tail(q)
  BY DEF Pop, ChannelOf
<1>4. ASSUME NEW k \in 1 .. Len(q) - 1, NEW l \in 1 .. Len(q) - 1,
             Tail(q)[k] \in Kind, Tail(q)[l] \in Kind
      PROVE  k = l
  <2>1. k + 1 \in DOMAIN q /\ l + 1 \in DOMAIN q /\ q[k + 1] \in Kind /\ q[l + 1] \in Kind
    BY <1>1, <1>2, <1>4
  <2> QED
    BY <2>1 DEF AtMostOne
<1>5. AtMostOne(Pop(ch), Kind)
  BY <1>2, <1>3, <1>4 DEF AtMostOne
<1>6. ASSUME q[1] \in Kind, NEW k \in 1 .. Len(q) - 1, Tail(q)[k] \in Kind
      PROVE  FALSE
  <2>1. k + 1 \in DOMAIN q /\ 1 \in DOMAIN q /\ q[k + 1] \in Kind /\ k + 1 # 1
    BY <1>1, <1>2, <1>6
  <2> QED
    BY <1>6, <2>1 DEF AtMostOne
<1> QED
  BY <1>2, <1>3, <1>5, <1>6 DEF First, Pending

-----------------------------------------------------------------------------
(* Induction along a sequence.  A set stands for the formula to be proved.  *)

\* Positions in a queue: if there are any of a kind, one is the first.
LEMMA LeastNumber ==
    ASSUME NEW S \in SUBSET Nat, S # {}
    PROVE  \E m \in S : \A k \in S : m <= k
<1> DEFINE R == OpToRel(<, Nat)
<1>1. PICK m \in S : \A k \in S : <<k, m>> \notin R
  <2> HIDE DEF R
  <2> QED
    BY NatLessThanWellFounded, WFMin DEF R
<1>2. \A k \in S : ~(k < m)
  BY <1>1, Zenon DEF OpToRel
<1> QED
  BY <1>2

\* What holds at the start of a queue, and of every value if it holds of the
\* one before, holds to its end.
LEMMA Along ==
    ASSUME NEW N \in Nat, NEW S, 0 \in S, \A n \in 0 .. N - 1 : n \in S => n + 1 \in S
    PROVE  \A n \in 0 .. N : n \in S
<1> DEFINE T == {n \in 0 .. N : n \notin S}
<1> SUFFICES ASSUME T # {} PROVE FALSE
  OBVIOUS
<1>1. PICK m \in T : \A k \in T : m <= k
  <2>1. T \in SUBSET Nat
    OBVIOUS
  <2> HIDE DEF T
  <2> QED
    BY <2>1, LeastNumber
<1>2. m - 1 \in 0 .. N - 1 /\ m - 1 \notin T
  BY <1>1
<1> QED
  BY <1>1, <1>2

-----------------------------------------------------------------------------
(* Selections.                                                             *)

\* f[k] is what is selected of the first k values.
Selecting(f, s, S, n) ==
    f = [k \in 0 .. n |->
           IF k = 0 THEN <<>>
           ELSE IF s[k] \in S THEN Append(f[k - 1], s[k]) ELSE f[k - 1]]

\* The values of such a function.
LEMMA SelectingValues ==
    ASSUME NEW f, NEW s, NEW S, NEW n \in Nat, Selecting(f, s, S, n)
    PROVE  /\ f[0] = <<>>
           /\ \A k \in 1 .. n :
                f[k] = IF s[k] \in S THEN Append(f[k - 1], s[k]) ELSE f[k - 1]
<1> DEFINE Value(k) == IF k = 0 THEN <<>>
                       ELSE IF s[k] \in S THEN Append(f[k - 1], s[k]) ELSE f[k - 1]
<1>1. \A k \in 0 .. n : f[k] = Value(k)
  <2>1. f = [k \in 0 .. n |-> Value(k)]
    BY DEF Selecting
  <2> HIDE DEF Value
  <2> QED
    BY <2>1
<1>2. f[0] = Value(0) /\ \A k \in 1 .. n : f[k] = Value(k)
  <2> HIDE DEF Value
  <2> QED
    BY <1>1
<1> QED
  BY <1>2

\* There is one for every queue, ...
LEMMA SelectingExists ==
    ASSUME NEW s, NEW S, NEW N \in Nat
    PROVE  \E f : Selecting(f, s, S, N)
<1> DEFINE T == {n \in Nat : \E f : Selecting(f, s, S, n)}
<1>1. 0 \in T
  <2>1. Selecting([k \in 0 .. 0 |-> <<>>], s, S, 0)
    BY DEF Selecting
  <2> QED
    BY <2>1
<1>2. ASSUME NEW n \in 0 .. N - 1, n \in T
      PROVE  n + 1 \in T
  <2>1. PICK f : Selecting(f, s, S, n)
    BY <1>2
  <2>2. /\ f[0] = <<>>
        /\ \A k \in 1 .. n : f[k] = IF s[k] \in S THEN Append(f[k - 1], s[k]) ELSE f[k - 1]
    BY <2>1, SelectingValues
  <2> DEFINE last == IF s[n + 1] \in S THEN Append(f[n], s[n + 1]) ELSE f[n]
             g == [k \in 0 .. n + 1 |-> IF k <= n THEN f[k] ELSE last]
             Value(k) == IF k = 0 THEN <<>>
                         ELSE IF s[k] \in S THEN Append(g[k - 1], s[k]) ELSE g[k - 1]
  <2>3. \A k \in 0 .. n : g[k] = f[k]
    OBVIOUS
  <2>4. g[n + 1] = last
    OBVIOUS
  <2>5. ASSUME NEW k \in 0 .. n + 1
        PROVE  g[k] = Value(k)
    <3>1. CASE k = 0
      BY <2>2, <2>3, <3>1
    <3>2. CASE k \in 1 .. n
      <4>1. k - 1 \in 0 .. n
        BY <3>2
      <4> HIDE DEF g
      <4> QED
        BY <2>2, <2>3, <3>2, <4>1
    <3>3. CASE k = n + 1
      <4>1. k - 1 = n /\ k # 0 /\ n \in 0 .. n
        BY <3>3
      <4> HIDE DEF g
      <4> QED
        BY <2>3, <2>4, <3>3, <4>1
    <3> QED
      BY <3>1, <3>2, <3>3
  <2>6. g = [k \in 0 .. n + 1 |-> Value(k)]
    <3>1. DOMAIN g = 0 .. n + 1 /\ g = [k \in DOMAIN g |-> g[k]]
      OBVIOUS
    <3> HIDE DEF g, Value
    <3> QED
      BY <2>5, <3>1
  <2>7. Selecting(g, s, S, n + 1)
    <3> HIDE DEF g
    <3> QED
      BY <2>6 DEF Selecting
  <2> QED
    BY <2>7
<1>3. N \in T
  <2> HIDE DEF T
  <2> QED
    BY <1>1, <1>2, Along
<1> QED
  BY <1>3

\* ... and one only: what is selected of the first values does not depend on
\* those behind them.
LEMMA SelectingUnique ==
    ASSUME NEW f, NEW g, NEW s, NEW t, NEW S, NEW n \in Nat, NEW m \in Nat, n <= m,
           Selecting(f, s, S, n), Selecting(g, t, S, m), \A k \in 1 .. n : s[k] = t[k]
    PROVE  \A k \in 0 .. n : f[k] = g[k]
<1> DEFINE T == {k \in Nat : f[k] = g[k]}
<1>1. /\ f[0] = <<>> /\ g[0] = <<>>
      /\ \A k \in 1 .. n : f[k] = IF s[k] \in S THEN Append(f[k - 1], s[k]) ELSE f[k - 1]
      /\ \A k \in 1 .. m : g[k] = IF t[k] \in S THEN Append(g[k - 1], t[k]) ELSE g[k - 1]
  BY SelectingValues
<1>2. 0 \in T
  BY <1>1
<1>3. ASSUME NEW k \in 0 .. n - 1, k \in T
      PROVE  k + 1 \in T
  <2>1. k + 1 \in 1 .. n /\ k + 1 \in 1 .. m /\ (k + 1) - 1 = k
    OBVIOUS
  <2> QED
    BY <1>1, <1>3, <2>1
<1> HIDE DEF T
<1>4. \A k \in 0 .. n : k \in T
  BY <1>2, <1>3, Along
<1> QED
  BY <1>4 DEF T

\* So the definition means what it says.
LEMMA SelectedIs ==
    ASSUME NEW f, NEW s, NEW S, Len(s) \in Nat, Selecting(f, s, S, Len(s))
    PROVE  Selected(s, S) = f[Len(s)]
<1> DEFINE g == CHOOSE x : Selecting(x, s, S, Len(s))
<1>1. Selected(s, S) = g[Len(s)]
  BY DEF Selected, Selecting
<1>2. Selecting(g, s, S, Len(s))
  OBVIOUS
<1> HIDE DEF g
<1> QED
  BY <1>1, <1>2, SelectingUnique

\* Nothing is selected of nothing.
LEMMA SelectedEmpty ==
    ASSUME NEW S
    PROVE  Selected(<<>>, S) = <<>>
<1>1. Len(<<>>) = 0
  OBVIOUS
<1>2. PICK f : Selecting(f, <<>>, S, 0)
  BY SelectingExists
<1>3. f[0] = <<>>
  BY <1>2, SelectingValues
<1> QED
  BY <1>1, <1>2, <1>3, SelectedIs

\* A value appended is selected if it is in S.
LEMMA SelectedAppend ==
    ASSUME NEW M, NEW s \in Seq(M), NEW x \in M, NEW S
    PROVE  Selected(Append(s, x), S) =
             IF x \in S THEN Append(Selected(s, S), x) ELSE Selected(s, S)
<1> DEFINE t == Append(s, x)
           n == Len(s)
<1>1. /\ n \in Nat /\ n + 1 \in Nat /\ n <= n + 1 /\ Len(t) = n + 1
      /\ t[n + 1] = x
      /\ \A k \in 1 .. n : s[k] = t[k]
  OBVIOUS
<1>2. PICK f : Selecting(f, s, S, n)
  BY <1>1, SelectingExists
<1>3. PICK g : Selecting(g, t, S, n + 1)
  BY <1>1, SelectingExists
<1>4. Selected(s, S) = f[n]
  BY <1>1, <1>2, SelectedIs
<1> HIDE DEF t, n
<1>5. Selected(t, S) = g[n + 1]
  BY <1>1, <1>3, SelectedIs
<1>6. f[n] = g[n]
  BY <1>1, <1>2, <1>3, SelectingUnique
<1>7. g[n + 1] = IF t[n + 1] \in S THEN Append(g[n], t[n + 1]) ELSE g[n]
  <2>1. n + 1 \in 1 .. n + 1 /\ (n + 1) - 1 = n
    BY <1>1
  <2> QED
    BY <1>1, <1>3, <2>1, SelectingValues
<1> QED
  BY <1>1, <1>4, <1>5, <1>6, <1>7 DEF t

\* What is selected are values of the queue that are in S.
LEMMA SelectingTypes ==
    ASSUME NEW M, NEW s \in Seq(M), NEW S, NEW f, Selecting(f, s, S, Len(s))
    PROVE  \A k \in 0 .. Len(s) : f[k] \in Seq(M \cap S)
<1> DEFINE n == Len(s)
           T == {k \in Nat : f[k] \in Seq(M \cap S)}
<1>1. n \in Nat /\ \A k \in 1 .. n : s[k] \in M
  OBVIOUS
<1>2. Selecting(f, s, S, n)
  OBVIOUS
<1> HIDE DEF n
<1>3. /\ f[0] = <<>>
      /\ \A k \in 1 .. n : f[k] = IF s[k] \in S THEN Append(f[k - 1], s[k]) ELSE f[k - 1]
  BY <1>1, <1>2, SelectingValues
<1>4. 0 \in T
  <2>1. <<>> \in Seq(M \cap S)
    OBVIOUS
  <2> QED
    BY <1>3, <2>1
<1>5. ASSUME NEW k \in 0 .. n - 1, k \in T
      PROVE  k + 1 \in T
  <2>1. k + 1 \in 1 .. n /\ (k + 1) - 1 = k /\ k + 1 \in Nat
    BY <1>1
  <2>2. f[k + 1] = IF s[k + 1] \in S THEN Append(f[k], s[k + 1]) ELSE f[k]
    BY <1>3, <2>1
  <2>3. f[k] \in Seq(M \cap S) /\ s[k + 1] \in M
    BY <1>1, <1>5, <2>1
  <2>4. f[k + 1] \in Seq(M \cap S)
    BY <2>2, <2>3
  <2> QED
    BY <2>1, <2>4
<1> HIDE DEF T
<1>6. \A k \in 0 .. n : k \in T
  BY <1>1, <1>4, <1>5, Along
<1> QED
  BY <1>6 DEF T, n

\* The type of a selection.
LEMMA SelectedTypes ==
    ASSUME NEW M, NEW s \in Seq(M), NEW S
    PROVE  Selected(s, S) \in Seq(M \cap S)
<1>1. Len(s) \in Nat /\ Len(s) \in 0 .. Len(s)
  OBVIOUS
<1>2. PICK f : Selecting(f, s, S, Len(s))
  BY <1>1, SelectingExists
<1>3. f[Len(s)] \in Seq(M \cap S)
  BY <1>1, <1>2, SelectingTypes
<1>4. Selected(s, S) = f[Len(s)]
  BY <1>1, <1>2, SelectedIs
<1> QED
  BY <1>3, <1>4

\* Whoever is only told the first values has the first of those selected.
LEMMA SelectedPrefix ==
    ASSUME NEW M, NEW s \in Seq(M), NEW t \in Seq(M), NEW S,
           Len(t) <= Len(s), \A k \in 1 .. Len(t) : t[k] = s[k]
    PROVE  /\ Len(Selected(t, S)) <= Len(Selected(s, S))
           /\ \A k \in 1 .. Len(Selected(t, S)) : Selected(t, S)[k] = Selected(s, S)[k]
<1> DEFINE n == Len(t)
           N == Len(s)
           Begins(a, b) == Len(a) <= Len(b) /\ \A k \in 1 .. Len(a) : a[k] = b[k]
<1>1. n \in Nat /\ N \in Nat /\ n <= N /\ N - n \in Nat
  OBVIOUS
<1>2. PICK f : Selecting(f, t, S, n)
  BY <1>1, SelectingExists
<1>3. PICK g : Selecting(g, s, S, N)
  BY <1>1, SelectingExists
<1>4. Selected(t, S) = f[n] /\ Selected(s, S) = g[N]
  BY <1>1, <1>2, <1>3, SelectedIs
<1>5. f[n] = g[n]
  BY <1>1, <1>2, <1>3, SelectingUnique
<1>6. \A k \in 0 .. N : g[k] \in Seq(M \cap S)
  BY <1>3, SelectingTypes
<1>7. \A k \in 1 .. N : g[k] = IF s[k] \in S THEN Append(g[k - 1], s[k]) ELSE g[k - 1]
  BY <1>1, <1>3, SelectingValues
<1>8. \A k \in 1 .. N : s[k] \in M
  OBVIOUS
<1> DEFINE T == {k \in Nat : Begins(g[n], g[n + k])}
<1> HIDE DEF n, N
<1>9. 0 \in T
  <2>1. Begins(g[n], g[n])
    BY <1>1, <1>6
  <2> QED
    BY <1>1, <2>1
<1>10. ASSUME NEW k \in 0 .. N - n - 1, k \in T
       PROVE  k + 1 \in T
  <2>1. /\ n + k \in 0 .. N /\ n + (k + 1) \in 1 .. N /\ n \in 0 .. N
        /\ (n + (k + 1)) - 1 = n + k
    BY <1>1
  <2>2. g[n] \in Seq(M \cap S) /\ g[n + k] \in Seq(M \cap S)
    BY <1>6, <2>1
  <2>3. g[n + (k + 1)] = g[n + k] \/ \E x \in M \cap S : g[n + (k + 1)] = Append(g[n + k], x)
    BY <1>7, <1>8, <2>1
  <2>4. Begins(g[n], g[n + k])
    BY <1>10
  <2>5. Begins(g[n], g[n + (k + 1)])
    BY <2>2, <2>3, <2>4
  <2> QED
    BY <2>5
<1> HIDE DEF T
<1>11. N - n \in T
  BY <1>1, <1>9, <1>10, Along
<1>12. Begins(g[n], g[N])
  BY <1>1, <1>11 DEF T
<1> QED
  BY <1>4, <1>5, <1>12
-----------------------------------------------------------------------------
(* Sequences cut in two.                                                    *)

\* Taking a value from the front of a queue and putting it at the end of a
\* record of what was taken changes neither.
LEMMA TakenAndLeft ==
    ASSUME NEW M, NEW s \in Seq(M), NEW q \in Seq(M), q # <<>>
    PROVE  Append(s, Head(q)) \o Tail(q) = s \o q
<1> DEFINE left == Append(s, Head(q)) \o Tail(q)
           right == s \o q
<1>1. /\ Head(q) \in M /\ Tail(q) \in Seq(M) /\ Len(Tail(q)) = Len(q) - 1
      /\ Head(q) = q[1] /\ \A k \in 1 .. Len(Tail(q)) : Tail(q)[k] = q[k + 1]
      /\ Len(q) \in Nat \ {0} /\ Len(s) \in Nat
  BY HeadTailProperties, EmptySeq
<1>2. /\ Append(s, Head(q)) \in Seq(M) /\ Len(Append(s, Head(q))) = Len(s) + 1
      /\ \A k \in 1 .. Len(s) : Append(s, Head(q))[k] = s[k]
      /\ Append(s, Head(q))[Len(s) + 1] = q[1]
  BY <1>1, AppendProperties
<1>3. /\ left \in Seq(M) /\ Len(left) = Len(s) + Len(q)
      /\ \A k \in 1 .. Len(s) + Len(q) :
           left[k] = IF k <= Len(s) + 1 THEN Append(s, Head(q))[k]
                                        ELSE Tail(q)[k - (Len(s) + 1)]
  BY <1>1, <1>2, ConcatProperties
<1>4. /\ right \in Seq(M) /\ Len(right) = Len(s) + Len(q)
      /\ \A k \in 1 .. Len(s) + Len(q) :
           right[k] = IF k <= Len(s) THEN s[k] ELSE q[k - Len(s)]
  BY ConcatProperties
<1> HIDE DEF left, right
<1>5. ASSUME NEW k \in 1 .. Len(s) + Len(q)
      PROVE  left[k] = right[k]
  <2>1. CASE k <= Len(s)
    BY <1>1, <1>2, <1>3, <1>4, <2>1
  <2>2. CASE k = Len(s) + 1
    BY <1>1, <1>2, <1>3, <1>4, <2>2
  <2>3. CASE k > Len(s) + 1
    <3>1. k - (Len(s) + 1) \in 1 .. Len(Tail(q)) /\ (k - (Len(s) + 1)) + 1 = k - Len(s)
      BY <1>1, <2>3
    <3> QED
      BY <1>1, <1>3, <1>4, <2>3, <3>1
  <2> QED
    BY <1>1, <2>1, <2>2, <2>3
<1>6. left = right
  BY <1>3, <1>4, <1>5, SeqEqual
<1> QED
  BY <1>6 DEF left, right

\* A value sent goes behind all the others.
LEMMA PushBehind ==
    ASSUME NEW M, NEW s \in Seq(M), NEW q \in Seq(M), NEW x \in M
    PROVE  s \o Append(q, x) = Append(s \o q, x)
<1>1. s \o q \in Seq(M) /\ <<x>> \in Seq(M)
  BY ConcatProperties
<1>2. Append(q, x) = q \o <<x>> /\ Append(s \o q, x) = (s \o q) \o <<x>>
  BY <1>1, AppendIsConcat
<1> QED
  BY <1>1, <1>2, ConcatAssociative

\* A queue that agrees with another as far as it goes is a prefix of it.
LEMMA PrefixIsSubSeq ==
    ASSUME NEW M, NEW s \in Seq(M), NEW t \in Seq(M),
           Len(t) <= Len(s), \A k \in 1 .. Len(t) : t[k] = s[k]
    PROVE  t = SubSeq(s, 1, Len(t)) /\ Len(t) \in 0 .. Len(s)
<1> DEFINE u == SubSeq(s, 1, Len(t))
<1>1. Len(t) \in Nat /\ Len(s) \in Nat /\ \A k \in 1 .. Len(t) : s[k] \in M
  OBVIOUS
<1>2. /\ u \in Seq(M) /\ Len(u) = Len(t)
      /\ \A k \in 1 .. Len(t) : u[k] = s[k]
  BY <1>1, SubSeqProperties
<1> HIDE DEF u
<1>3. t = u
  BY <1>2, SeqEqual
<1> QED
  BY <1>1, <1>3 DEF u

\* A table with one entry more is the table with that entry appended.
LEMMA OneMore ==
    ASSUME NEW n \in Nat, NEW f, NEW g,
           f = [i \in 1 .. n |-> f[i]], g = [i \in 1 .. n + 1 |-> g[i]],
           \A i \in 1 .. n : g[i] = f[i]
    PROVE  g = Append(f, g[n + 1]) /\ Len(f) = n
<1> DEFINE S == {g[i] : i \in 1 .. n + 1}
<1>1. f \in Seq(S) /\ Len(f) = n
  <2>0. \A i \in 1 .. n + 1 : g[i] \in S
    OBVIOUS
  <2> HIDE DEF S
  <2>1. ASSUME NEW i \in 1 .. n
        PROVE  f[i] \in S
    <3>1. i \in 1 .. n + 1 /\ g[i] = f[i]
      OBVIOUS
    <3> QED
      BY <2>0, <3>1
  <2>2. f \in [1 .. n -> S]
    BY <2>1
  <2> QED
    BY <2>2
<1>2. g \in Seq(S) /\ Len(g) = n + 1
  OBVIOUS
<1>3. g[n + 1] \in S
  OBVIOUS
<1> HIDE DEF S
<1>4. /\ Append(f, g[n + 1]) \in Seq(S)
      /\ Len(Append(f, g[n + 1])) = n + 1
      /\ \A i \in 1 .. n : Append(f, g[n + 1])[i] = f[i]
      /\ Append(f, g[n + 1])[n + 1] = g[n + 1]
  BY <1>1, <1>3, AppendProperties
<1>5. \A i \in 1 .. n + 1 : g[i] = Append(f, g[n + 1])[i]
  BY <1>4
<1>6. g = Append(f, g[n + 1])
  BY <1>2, <1>4, <1>5, SeqEqual
<1> QED
  BY <1>1, <1>6

-----------------------------------------------------------------------------
(* All but the last.                                                       *)

\* What has been added can be told from what was there before.
LEMMA LastOfAppend ==
    ASSUME NEW M, NEW s \in Seq(M), NEW e \in M
    PROVE  /\ SubSeq(Append(s, e), 1, Len(Append(s, e)) - 1) = s
           /\ Append(s, e)[Len(Append(s, e))] = e
           /\ Append(s, e) # <<>>
<1> DEFINE t == Append(s, e)
           n == Len(s)
           u == SubSeq(t, 1, n)
<1>1. /\ t \in Seq(M) /\ Len(t) = n + 1 /\ n \in Nat /\ Len(t) - 1 = n /\ t # <<>>
      /\ (\A k \in 1 .. n : t[k] = s[k]) /\ t[n + 1] = e
  OBVIOUS
<1>2. /\ u \in Seq(M) /\ Len(u) = n /\ \A k \in 1 .. n : u[k] = t[k]
  <2>1. n \in Int /\ \A k \in 1 .. n : t[k] \in M
    BY <1>1
  <2> HIDE DEF t, n
  <2>2. /\ SubSeq(t, 1, n) \in Seq(M)
        /\ Len(SubSeq(t, 1, n)) = IF 1 <= n THEN n - 1 + 1 ELSE 0
        /\ \A k \in 1 .. n - 1 + 1 : SubSeq(t, 1, n)[k] = t[1 + k - 1]
    BY <2>1, SubSeqProperties
  <2> QED
    BY <1>1, <2>2
<1> HIDE DEF t, u
<1>3. u = s
  BY <1>1, <1>2, SeqEqual
<1> QED
  BY <1>1, <1>3 DEF t, u

\* So a sequence is made of what comes before its last, and that.
LEMMA AllButLast ==
    ASSUME NEW M, NEW s \in Seq(M), s # <<>>
    PROVE  s = Append(SubSeq(s, 1, Len(s) - 1), s[Len(s)])
<1>1. PICK t \in Seq(M), e \in M : s = Append(t, e)
  BY SequenceEmptyOrAppend
<1>2. SubSeq(s, 1, Len(s) - 1) = t /\ s[Len(s)] = e
  BY <1>1, LastOfAppend
<1> QED
  BY <1>1, <1>2
=============================================================================
