------------------------------ MODULE Channel ------------------------------
(***************************************************************************)
(* tokio::sync::mpsc::unbounded_channel, the only way the tasks of this    *)
(* library talk to each other: an event channel per client session         *)
(* (client.rs), an action channel per destination (inmemory.rs), a channel *)
(* of commands per timer (delayable_stream.rs), and so on.                 *)
(*                                                                         *)
(* A channel is seen from the sender's side: it accepts a value unless the *)
(* receiver was closed or dropped.  Dropping the receiver also drops what  *)
(* is still queued.  That the last sender was dropped, which ends the      *)
(* receiver's loop, is not part of the channel: a session holds a sender   *)
(* of its own channel, the map of destinations holds one of each of        *)
(* theirs, and ResettableTimer and WebSocketBridge say who holds theirs.   *)
(***************************************************************************)
EXTENDS Integers, Sequences

ChannelOf(M) == [open : BOOLEAN, queue : Seq(M)]

NewChannel == [open |-> TRUE, queue |-> <<>>]

\* The receiver is gone, and the queued values with it.
Dropped == [open |-> FALSE, queue |-> <<>>]

\* UnboundedSender::send; on a channel without receiver it is an Err that
\* gives the value back, and nothing changes.
Push(ch, m) == IF ch.open THEN [ch EXCEPT !.queue = Append(@, m)] ELSE ch

\* UnboundedReceiver::recv returns First(ch) and leaves Pop(ch).
Ready(ch) == ch.queue # <<>>
First(ch) == Head(ch.queue)
Pop(ch) == [ch EXCEPT !.queue = Tail(@)]

\* The values in the channel, and whether at most one of them is in Kind
\* (derived, for the properties).
Pending(ch) == {ch.queue[k] : k \in DOMAIN ch.queue}
AtMostOne(ch, Kind) ==
    \A k, l \in DOMAIN ch.queue : ch.queue[k] \in Kind /\ ch.queue[l] \in Kind => k = l

\* The values of a sequence that are in S, in their order (derived, for the
\* properties).  It is SelectSeq, as a function that proofs can unfold.
Selected(s, S) ==
    LET upTo[n \in 0 .. Len(s)] ==
          IF n = 0 THEN <<>>
          ELSE IF s[n] \in S THEN Append(upTo[n - 1], s[n]) ELSE upTo[n - 1]
    IN  upTo[Len(s)]
=============================================================================
